---- MODULE Spec2Model ----
(***************************************************************************)
(* Model of src/src/word/text_to_structured.py: the structuring engine     *)
(* that validates a marker-annotated transcript and rewrites it as a       *)
(* structured question/answer document, or writes a diagnostic artifact.   *)
(*                                                                         *)
(* A line is a sequence of tokens (strings).  A token is either one        *)
(* character (" " a whitespace character, "x" ordinary text, a digit,      *)
(* "_", "[[" and "]]" for the full-width brackets) or one of the fixed     *)
(* multi-character strings of the program (the markers, the tags, the      *)
(* fixed texts of headers and messages, the Japanese ones rendered in      *)
(* ASCII).  Indices keep Python's 0-based values; At and Slice translate   *)
(* them to TLA+ sequences.  None is NoneIdx for an index.                  *)
(***************************************************************************)
EXTENDS Integers, Sequences, FiniteSets, TLC

VARIABLES
    \* text_to_structured.process_single_file
    input_name,      \* input_path.name, a sequence of character tokens
    readable,        \* the input file can be opened and decoded
    file_content,    \* the lines of the input file on disk
    pc,              \* position inside process_single_file
    lines,           \* the list `lines` read from the file
    fatal_errors,    \* result of validate_file_structure
    out_date,        \* date_from_filename()[0]
    id_date,         \* date_from_filename()[1]
    p_idx,           \* number of parent blocks already transformed
    qa_seq,          \* the record-identifier counter
    output_lines,    \* the list `output_lines` under construction
    ok_written,      \* output_ok_path has been opened for writing
    ok_file,         \* lines of the file at output_ok_path
    err_written,     \* output_error_path has been opened for writing
    err_file,        \* lines of the file at output_error_path
    success,         \* first component of the return value
    err_msg,         \* third component of the return value
    stats,           \* second component of the return value
    had_file_error,  \* module global set by notify_file_error
    calls,           \* the stage functions called so far, in call order
    build_checks,    \* one record per build_child_output_lines call
    \* text_to_structured.main
    m_pc,            \* position inside main
    all_files,       \* list(INPUT_DIR.glob(FILE_PATTERN))
    file_idx,        \* idx of the for loop over all_files
    success_count,
    error_count,
    total_parent,
    total_followup,
    had_warning,     \* module global set by notify_warning
    exit_code,       \* the return value of main
    processed,       \* the names passed to process_single_file, in call order
    outcomes,        \* per processed file: name, return value, artifacts
    moved,           \* the names of the files renamed into DONE_DIR
    \* word_to_text.extract_marked_sections
    x_pc,               \* position inside extract_marked_sections
    elements,           \* the elements of document.element.body met so far
    in_parent,          \* state.in_parent
    in_skip,            \* state.in_skip
    found_parent_count, \* state.found_parent_count
    last_was_empty,
    is_first_output,
    marker_just_output,
    printed,            \* the lines written to standard output
    x_had_warning,      \* word_to_text's module global set by notify_warning
    trace,              \* one record per loop iteration
    parent_count,       \* the return value of extract_marked_sections
    \* run_all.main
    r_pc,               \* position inside run_all
    script_idx,         \* the number of scripts of SCRIPTS already run
    r_had_warning,      \* the local had_warning of run_all.main
    started,            \* the scripts started by run_script, in order
    returncodes,        \* result.returncode of each started script
    r_exit,             \* the exit status of the run_all process
    \* structured_to_department.main
    d_pc,               \* position inside main
    d_files,            \* all_files: name and lines of each input file
    d_idx,              \* the number of files already processed
    d_success_count,
    d_error_count,
    d_total_parent,     \* total_parent_sections
    d_had_file_error,   \* module global set by notify_file_error
    d_results,          \* the return value of each process_single_file call
    d_out,              \* the files of OUTPUT_DIR / timestamp
    d_done,             \* the names of the files renamed into DONE_DIR
    d_exit,             \* the return value of main
    \* move_structured_to_department
    mv_pc,              \* position inside the script
    mv_files,           \* files: the names listed by the glob
    mv_idx,             \* the number of files already handled
    mv_input,           \* the *.txt files directly inside INPUT_DIR
    mv_output,          \* the files of OUTPUT_DIR
    mv_done,            \* the files of DONE_DIR
    mv_events           \* the copies and moves done so far, in order

engine_vars == <<input_name, readable, file_content, pc, lines, fatal_errors, out_date,
                 id_date, p_idx, qa_seq, output_lines, ok_written, ok_file, err_written,
                 err_file, success, err_msg, stats, had_file_error, calls, build_checks>>

main_vars == <<m_pc, all_files, file_idx, success_count, error_count, total_parent,
               total_followup, had_warning, exit_code, processed, outcomes, moved>>

extract_vars == <<x_pc, elements, in_parent, in_skip, found_parent_count, last_was_empty,
                  is_first_output, marker_just_output, printed, x_had_warning, trace,
                  parent_count>>

pipeline_vars == <<r_pc, script_idx, r_had_warning, started, returncodes, r_exit>>

dept_vars == <<d_pc, d_files, d_idx, d_success_count, d_error_count, d_total_parent,
               d_had_file_error, d_results, d_out, d_done, d_exit>>

move_vars == <<mv_pc, mv_files, mv_idx, mv_input, mv_output, mv_done, mv_events>>

\* the variables of the other programs of the pipeline
other_vars == <<pipeline_vars, dept_vars, move_vars>>

vars == <<engine_vars, main_vars, extract_vars, other_vars>>

----------------------------------------------------------------------------
(* Program constants *)

EXIT_OK == 0
EXIT_ERROR == 1
EXIT_WARNING == 2

MARKER_PARENT == "[PARENT]"
MARKER_CHILD == "[CHILD]"
MARKER_QA_SPLIT == "[QA_SPLIT]"
TAG_Q == "[Q] "
TAG_A == "[A] "

NoneIdx == 0 - 1

----------------------------------------------------------------------------
(* Python list and string primitives on token sequences *)

At(s, i) == s[i + 1]

Slice(s, a, b) == SubSeq(s, a + 1, b)

RECURSIVE LStrip(_)
LStrip(line) ==
    IF line # <<>> /\ line[1] = " " THEN LStrip(Tail(line)) ELSE line

RECURSIVE RStrip(_)
RStrip(line) ==
    IF line # <<>> /\ line[Len(line)] = " "
    THEN RStrip(SubSeq(line, 1, Len(line) - 1))
    ELSE line

\* str.strip()
Strip(line) == RStrip(LStrip(line))

Contains(line, token) == \E i \in 1..Len(line) : line[i] = token

StartsWith(line, token) == Len(line) >= 1 /\ line[1] = token

Digit(n) == <<"0", "1", "2", "3", "4", "5", "6", "7", "8", "9">>[n + 1]

RECURSIVE DecStr(_)
DecStr(n) == IF n < 10 THEN <<Digit(n)>> ELSE Append(DecStr(n \div 10), Digit(n % 10))

RECURSIVE ZeroPad(_, _)
ZeroPad(s, width) == IF Len(s) >= width THEN s ELSE ZeroPad(<<"0">> \o s, width)

RECURSIVE Flatten(_)
Flatten(ss) == IF ss = <<>> THEN <<>> ELSE Head(ss) \o Flatten(Tail(ss))

----------------------------------------------------------------------------
(* Line utilities *)

is_non_empty_line(line) == Strip(line) # <<>>

RECURSIVE next_non_empty_index(_, _)
next_non_empty_index(ls, start_index) ==
    IF start_index >= Len(ls) THEN NoneIdx
    ELSE IF is_non_empty_line(At(ls, start_index)) THEN start_index
    ELSE next_non_empty_index(ls, start_index + 1)

is_blank_line(line) == Strip(line) = <<>>

RECURSIVE trim_trailing_blank(_)
trim_trailing_blank(ls) ==
    IF ls # <<>> /\ is_blank_line(ls[Len(ls)])
    THEN trim_trailing_blank(SubSeq(ls, 1, Len(ls) - 1))
    ELSE ls

RECURSIVE trim_leading_blank(_)
trim_leading_blank(ls) ==
    IF ls # <<>> /\ is_blank_line(ls[1])
    THEN trim_leading_blank(Tail(ls))
    ELSE ls

RECURSIVE NormalizeBody(_, _, _)
NormalizeBody(body, normalized, prev_blank) ==
    IF body = <<>> THEN normalized
    ELSE LET blank == is_blank_line(Head(body))
         IN  IF blank /\ prev_blank
             THEN NormalizeBody(Tail(body), normalized, prev_blank)
             ELSE NormalizeBody(Tail(body), Append(normalized, Head(body)), blank)

\* variant: nothing is collapsed
normalize_blank_lines_keep_all(ls) == ls

normalize_blank_lines(ls) ==
    IF Len(ls) <= 2 THEN ls
    ELSE Slice(ls, 0, 2) \o NormalizeBody(Slice(ls, 2, Len(ls)), <<>>, FALSE)

----------------------------------------------------------------------------
(* 1. date_from_filename *)

IsDigit(ch) == ch \in {"0", "1", "2", "3", "4", "5", "6", "7", "8", "9"}

DigitVal(ch) == CHOOSE n \in 0..9 : Digit(n) = ch

\* int() of a two-character digit string
Int2(s) == 10 * DigitVal(s[1]) + DigitVal(s[2])

\* re.match(r"^(\d{6})_", input_filename)
MatchesDatePrefix(name) ==
    /\ Len(name) >= 7
    /\ \A i \in 1..6 : IsDigit(name[i])
    /\ name[7] = "_"

IsLeap(yyyy) == (yyyy % 4 = 0 /\ yyyy % 100 # 0) \/ yyyy % 400 = 0

DaysInMonth(yyyy, mm) ==
    IF mm = 2 THEN (IF IsLeap(yyyy) THEN 29 ELSE 28)
    ELSE IF mm \in {4, 6, 9, 11} THEN 30 ELSE 31

\* variant: the year is 1900 + yy
date_from_filename_1900(input_filename) ==
    IF ~MatchesDatePrefix(input_filename)
    THEN [raised |-> TRUE,
          msg |-> <<"filename not in expected form (leading yymmdd_ required): ">> \o input_filename,
          out_date |-> <<>>, id_date |-> <<>>]
    ELSE LET yy == Int2(SubSeq(input_filename, 1, 2))
             mm == Int2(SubSeq(input_filename, 3, 4))
             dd == Int2(SubSeq(input_filename, 5, 6))
             yyyy == 1900 + yy
         IN  IF mm < 1 \/ mm > 12
             THEN [raised |-> TRUE, msg |-> <<"month must be in 1..12">>,
                   out_date |-> <<>>, id_date |-> <<>>]
             ELSE IF dd < 1 \/ dd > DaysInMonth(yyyy, mm)
             THEN [raised |-> TRUE, msg |-> <<"day is out of range for month">>,
                   out_date |-> <<>>, id_date |-> <<>>]
             ELSE [raised |-> FALSE, msg |-> <<>>,
                   out_date |-> ZeroPad(DecStr(yyyy), 4) \o <<"-">> \o ZeroPad(DecStr(mm), 2)
                                \o <<"-">> \o ZeroPad(DecStr(dd), 2),
                   id_date |-> ZeroPad(DecStr(yyyy), 4) \o ZeroPad(DecStr(mm), 2)
                               \o ZeroPad(DecStr(dd), 2)]

\* the record [raised, msg, ...] stands for "returns normally" or "raises
\* an exception whose str() is msg"
date_from_filename(input_filename) ==
    IF ~MatchesDatePrefix(input_filename)
    THEN [raised |-> TRUE,
          msg |-> <<"filename not in expected form (leading yymmdd_ required): ">> \o input_filename,
          out_date |-> <<>>, id_date |-> <<>>]
    ELSE LET yy == Int2(SubSeq(input_filename, 1, 2))
             mm == Int2(SubSeq(input_filename, 3, 4))
             dd == Int2(SubSeq(input_filename, 5, 6))
             yyyy == 2000 + yy
         IN  IF mm < 1 \/ mm > 12
             THEN [raised |-> TRUE, msg |-> <<"month must be in 1..12">>,
                   out_date |-> <<>>, id_date |-> <<>>]
             ELSE IF dd < 1 \/ dd > DaysInMonth(yyyy, mm)
             THEN [raised |-> TRUE, msg |-> <<"day is out of range for month">>,
                   out_date |-> <<>>, id_date |-> <<>>]
             ELSE [raised |-> FALSE, msg |-> <<>>,
                   out_date |-> ZeroPad(DecStr(yyyy), 4) \o <<"-">> \o ZeroPad(DecStr(mm), 2)
                                \o <<"-">> \o ZeroPad(DecStr(dd), 2),
                   id_date |-> ZeroPad(DecStr(yyyy), 4) \o ZeroPad(DecStr(mm), 2)
                               \o ZeroPad(DecStr(dd), 2)]

----------------------------------------------------------------------------
(* Validation messages (the f-strings of the validator) *)

\* {line!r}
Repr(line) == <<"'">> \o line \o <<"'">>

ErrMarkerNotAlone(idx, line) ==
    DecStr(idx) \o <<"(line): marker is not alone on its line: ">> \o Repr(line)

ErrNoParent == <<MARKER_PARENT, " does not occur at all.">>

ErrNoChild(p) ==
    DecStr(p) \o <<"(th parent block): ", MARKER_CHILD, " does not occur at all.">>

ChildPrefix(p, c) == DecStr(p) \o <<"(th parent) / ">> \o DecStr(c) \o <<"(th child block): ">>

ErrNoSplit(p, c) == ChildPrefix(p, c) \o <<"[QA_SPLIT] is missing.">>

ErrMultiSplit(p, c) == ChildPrefix(p, c) \o <<"[QA_SPLIT] occurs more than once.">>

ErrNoQuestion(p, c) ==
    ChildPrefix(p, c)
    \o <<"no non-empty line (question start) after [CHILD], or it is after [QA_SPLIT].">>

ErrNoAnswer(p, c) ==
    ChildPrefix(p, c) \o <<"no non-empty line (answer start) after [QA_SPLIT].">>

----------------------------------------------------------------------------
(* Marker lines must stand alone *)

Markers == <<MARKER_PARENT, MARKER_CHILD, MARKER_QA_SPLIT>>

\* the inner loop over markers for one line: one message per offending marker
LineMarkerErrors(idx, line) ==
    LET bad == SelectSeq(Markers, LAMBDA m : Contains(line, m) /\ Strip(line) # <<m>>)
    IN  [k \in 1..Len(bad) |-> ErrMarkerNotAlone(idx, line)]

RECURSIVE MarkerErrorsFrom(_, _)
MarkerErrorsFrom(ls, idx) ==
    IF idx > Len(ls) THEN <<>>
    ELSE LineMarkerErrors(idx, ls[idx]) \o MarkerErrorsFrom(ls, idx + 1)

\* variant: only the lines from the first PARENT marker on are looked at
validate_marker_lines_are_alone_in_blocks(ls) ==
    LET ps == {i \in 1..Len(ls) : Strip(ls[i]) = <<MARKER_PARENT>>}
    IN  IF ps = {} THEN <<>>
        ELSE MarkerErrorsFrom(ls, CHOOSE i \in ps : \A j \in ps : i <= j)

validate_marker_lines_are_alone(ls) == MarkerErrorsFrom(ls, 1)

----------------------------------------------------------------------------
(* 2-3. Block segmentation *)

\* [i for i in range(from, to) if lines[i].strip() == marker]
RECURSIVE IndicesOf(_, _, _, _)
IndicesOf(ls, from, to, marker) ==
    IF from >= to THEN <<>>
    ELSE (IF Strip(At(ls, from)) = <<marker>> THEN <<from>> ELSE <<>>)
         \o IndicesOf(ls, from + 1, to, marker)

\* blocks.append((p, end)) for every index, end = next index or last_end
BlocksOf(indices, last_end) ==
    [k \in 1..Len(indices) |->
        <<indices[k], IF k + 1 <= Len(indices) THEN indices[k + 1] ELSE last_end>>]

\* variant: every parent block runs to the end of the document
split_parent_blocks_open_end(ls) ==
    [k \in 1..Len(IndicesOf(ls, 0, Len(ls), MARKER_PARENT)) |->
        <<IndicesOf(ls, 0, Len(ls), MARKER_PARENT)[k], Len(ls)>>]

\* variant: a line is a parent line only if it is the marker as it stands
split_parent_blocks_untrimmed(ls) ==
    LET RECURSIVE Exact(_)
        Exact(from) ==
            IF from >= Len(ls) THEN <<>>
            ELSE (IF At(ls, from) = <<MARKER_PARENT>> THEN <<from>> ELSE <<>>)
                 \o Exact(from + 1)
    IN  BlocksOf(Exact(0), Len(ls))

split_parent_blocks(ls) ==
    BlocksOf(IndicesOf(ls, 0, Len(ls), MARKER_PARENT), Len(ls))

\* variant: the first child block starts right after the PARENT line
split_child_blocks_from_parent(ls, parent_start, parent_end) ==
    LET blocks == BlocksOf(IndicesOf(ls, parent_start, parent_end, MARKER_CHILD),
                           parent_end)
    IN  [k \in 1..Len(blocks) |->
            IF k = 1 THEN <<parent_start, blocks[k][2]>> ELSE blocks[k]]

split_child_blocks(ls, parent_start, parent_end) ==
    BlocksOf(IndicesOf(ls, parent_start, parent_end, MARKER_CHILD), parent_end)

----------------------------------------------------------------------------
(* Pre-validation *)

\* variant: the checks do not `continue`, every failing check is reported
ChildBlockErrors_all_checks(ls, p, c, c_start, c_end) ==
    LET qa_splits == IndicesOf(ls, c_start, c_end, MARKER_QA_SPLIT)
        qa_idx == IF qa_splits = <<>> THEN c_end ELSE qa_splits[1]
        q_line_idx == next_non_empty_index(ls, c_start + 1)
        a_line_idx == next_non_empty_index(ls, qa_idx + 1)
    IN  (IF Len(qa_splits) = 0 THEN <<ErrNoSplit(p, c)>> ELSE <<>>)
        \o (IF Len(qa_splits) >= 2 THEN <<ErrMultiSplit(p, c)>> ELSE <<>>)
        \o (IF q_line_idx = NoneIdx \/ q_line_idx >= qa_idx
            THEN <<ErrNoQuestion(p, c)>> ELSE <<>>)
        \o (IF qa_splits # <<>> /\ (a_line_idx = NoneIdx \/ a_line_idx >= c_end)
            THEN <<ErrNoAnswer(p, c)>> ELSE <<>>)

\* checks 4) 5) 6) for one child block: the body of the inner for loop
ChildBlockErrors(ls, p, c, c_start, c_end) ==
    LET qa_splits == IndicesOf(ls, c_start, c_end, MARKER_QA_SPLIT)
    IN  IF Len(qa_splits) = 0 THEN <<ErrNoSplit(p, c)>>
        ELSE IF Len(qa_splits) >= 2 THEN <<ErrMultiSplit(p, c)>>
        ELSE LET qa_idx == qa_splits[1]
                 q_line_idx == next_non_empty_index(ls, c_start + 1)
             IN  IF q_line_idx = NoneIdx \/ q_line_idx >= qa_idx
                 THEN <<ErrNoQuestion(p, c)>>
                 ELSE LET a_line_idx == next_non_empty_index(ls, qa_idx + 1)
                      IN  IF a_line_idx = NoneIdx \/ a_line_idx >= c_end
                          THEN <<ErrNoAnswer(p, c)>>
                          ELSE <<>>

\* variant: the loop over the child blocks stops at the first violation
ParentBlockErrors_first_only(ls, p, p_start, p_end) ==
    LET child_blocks == split_child_blocks(ls, p_start, p_end)
        all == Flatten([c \in 1..Len(child_blocks) |->
                   ChildBlockErrors(ls, p, c, child_blocks[c][1], child_blocks[c][2])])
    IN  IF child_blocks = <<>> THEN <<ErrNoChild(p)>>
        ELSE IF all = <<>> THEN <<>> ELSE <<Head(all)>>

\* check 3) and the inner loop for one parent block: the body of the outer loop
ParentBlockErrors(ls, p, p_start, p_end) ==
    LET child_blocks == split_child_blocks(ls, p_start, p_end)
    IN  IF child_blocks = <<>> THEN <<ErrNoChild(p)>>
        ELSE Flatten([c \in 1..Len(child_blocks) |->
                 ChildBlockErrors(ls, p, c, child_blocks[c][1], child_blocks[c][2])])

\* variant: a document without PARENT is not reported
validate_file_structure_no_parent_check(ls) ==
    LET parent_blocks == split_parent_blocks(ls)
    IN  validate_marker_lines_are_alone(ls)
        \o Flatten([p \in 1..Len(parent_blocks) |->
               ParentBlockErrors(ls, p, parent_blocks[p][1], parent_blocks[p][2])])

validate_file_structure(ls) ==
    LET marker_line_errors == validate_marker_lines_are_alone(ls)
        parent_blocks == split_parent_blocks(ls)
    IN  IF parent_blocks = <<>>
        THEN Append(marker_line_errors, ErrNoParent)
        ELSE marker_line_errors
             \o Flatten([p \in 1..Len(parent_blocks) |->
                    ParentBlockErrors(ls, p, parent_blocks[p][1], parent_blocks[p][2])])

----------------------------------------------------------------------------
(* 6. Department label *)

\* re.search of the full-width bracket pair in one line: the leftmost "[["
\* that has a "]]" after it, the group ending at the first "]]" after it
BracketMatch(line) ==
    LET opens == {i \in 1..Len(line) :
                    line[i] = "[[" /\ \E j \in (i + 1)..Len(line) : line[j] = "]]"}
    IN  IF opens = {} THEN [found |-> FALSE, group |-> <<>>]
        ELSE LET i == CHOOSE a \in opens : \A b \in opens : a <= b
                 j == CHOOSE a \in (i + 1)..Len(line) :
                        /\ line[a] = "]]"
                        /\ \A b \in (i + 1)..(a - 1) : line[b] # "]]"
             IN  [found |-> TRUE, group |-> SubSeq(line, i + 1, j - 1)]

\* variant: only the first line of the question is searched
extract_department_first_line_only(question_lines) ==
    IF question_lines = <<>> THEN [found |-> FALSE, group |-> <<>>]
    ELSE BracketMatch(Head(question_lines))

\* found = FALSE stands for None
RECURSIVE extract_department_from_major_question(_)
extract_department_from_major_question(question_lines) ==
    IF question_lines = <<>> THEN [found |-> FALSE, group |-> <<>>]
    ELSE IF BracketMatch(Head(question_lines)).found
         THEN BracketMatch(Head(question_lines))
         ELSE extract_department_from_major_question(Tail(question_lines))

----------------------------------------------------------------------------
(* 7. Question/answer builder *)

EmptyLine == <<>>

\* variant: the tag is put in front of the line whatever the line starts with
TagLine_always(part, idx, tag) == [part EXCEPT ![idx + 1] = <<tag>> \o @]

\* if not part[idx].startswith(tag): part[idx] = tag + part[idx]
TagLine(part, idx, tag) ==
    IF StartsWith(At(part, idx), tag) THEN part
    ELSE [part EXCEPT ![idx + 1] = <<tag>> \o @]

\* variant: follow-ups are numbered from 2
TitleLine_off_by_one(is_major, followup_number) ==
    IF is_major THEN <<"## primary QA">>
    ELSE <<"## follow-up">> \o DecStr(followup_number + 1)

TitleLine(is_major, followup_number) ==
    IF is_major THEN <<"## primary QA">>
    ELSE <<"## follow-up">> \o DecStr(followup_number)

\* sum(1 for line in out if line.startswith(tag))
CountTagged(out, tag) == Cardinality({i \in 1..Len(out) : StartsWith(out[i], tag)})

\* next(i for i, line in enumerate(out) if line.startswith(tag))
FirstTagged(out, tag) ==
    CHOOSE i \in 0..(Len(out) - 1) :
        /\ StartsWith(At(out, i), tag)
        /\ \A j \in 0..(i - 1) : ~StartsWith(At(out, j), tag)

Raised(text, assembled) ==
    [raised |-> TRUE, msg |-> text, out |-> <<>>, assembled |-> assembled,
     question |-> <<>>, answer |-> <<>>]

\* raised/msg: the exception re-raised by the except clause; out: the return
\* value; assembled: the list `out` as the final check sees it; question
\* and answer: question_part and answer_part as they are put into `out`
build_child_output_lines(child_content_lines, is_major, followup_number) ==
    LET splits == IndicesOf(child_content_lines, 0, Len(child_content_lines),
                            MARKER_QA_SPLIT)
    IN  IF splits = <<>> THEN Raised(<<>>, <<>>)   \* StopIteration, str() is empty
        ELSE
        LET qa_rel == splits[1]
            question_part == trim_trailing_blank(Slice(child_content_lines, 0, qa_rel))
            answer_part == trim_leading_blank(
                               Slice(child_content_lines, qa_rel + 1,
                                     Len(child_content_lines)))
            q_rel_idx == next_non_empty_index(question_part, 0)
            a_rel_idx == next_non_empty_index(answer_part, 0)
        IN  IF q_rel_idx = NoneIdx
            THEN Raised(<<"no non-empty line in the question part.">>, <<>>)
            ELSE IF a_rel_idx = NoneIdx
            THEN Raised(<<"no non-empty line in the answer part.">>, <<>>)
            ELSE
            LET out == <<<<MARKER_CHILD>>, TitleLine(is_major, followup_number)>>
                       \o TagLine(question_part, q_rel_idx, TAG_Q)
                       \o TagLine(answer_part, a_rel_idx, TAG_A)
                q_count == CountTagged(out, TAG_Q)
                a_count == CountTagged(out, TAG_A)
            IN  IF q_count # 1 \/ a_count # 1
                THEN [Raised(<<"bad [Q]/[A] count in child block ([Q]=">> \o DecStr(q_count)
                             \o <<", [A]=">> \o DecStr(a_count) \o <<").">>, out)
                        EXCEPT !.question = TagLine(question_part, q_rel_idx, TAG_Q),
                               !.answer = TagLine(answer_part, a_rel_idx, TAG_A)]
                ELSE IF FirstTagged(out, TAG_Q) >= FirstTagged(out, TAG_A)
                THEN [Raised(<<"[Q] of the child block occurs after [A].">>, out)
                        EXCEPT !.question = TagLine(question_part, q_rel_idx, TAG_Q),
                               !.answer = TagLine(answer_part, a_rel_idx, TAG_A)]
                ELSE [raised |-> FALSE, msg |-> <<>>,
                      out |-> trim_trailing_blank(out), assembled |-> out,
                      question |-> TagLine(question_part, q_rel_idx, TAG_Q),
                      answer |-> TagLine(answer_part, a_rel_idx, TAG_A)]

----------------------------------------------------------------------------
(* One file: process_single_file *)

\* the lines of a file written by f.write(LINE_BREAK.join(ls).rstrip(LINE_BREAK) + LINE_BREAK)
RECURSIVE DropTrailingEmpty(_)
DropTrailingEmpty(ls) ==
    IF ls # <<>> /\ ls[Len(ls)] = EmptyLine
    THEN DropTrailingEmpty(SubSeq(ls, 1, Len(ls) - 1))
    ELSE ls

FileLines(ls) ==
    IF DropTrailingEmpty(ls) = <<>> THEN <<EmptyLine>> ELSE DropTrailingEmpty(ls)

\* " / ".join(errors)
RECURSIVE JoinErrors(_)
JoinErrors(errors) ==
    IF errors = <<>> THEN <<>>
    ELSE IF Len(errors) = 1 THEN errors[1]
    ELSE errors[1] \o <<" / ">> \o JoinErrors(Tail(errors))

ValidationErrorLines(errors) ==
    <<EmptyLine, EmptyLine, <<"ERROR: the structure of the input file is invalid.">>>>
    \o [k \in 1..Len(errors) |-> <<"- ">> \o errors[k]]

ExceptionErrorLines(msg) ==
    <<EmptyLine, EmptyLine, <<"ERROR: a runtime exception occurred.">>, <<"- ">> \o msg>>

\* the loop over the child blocks of one parent block, from child c_idx on.
\* acc: out (lines appended so far), followup_no, builds (one record per
\* builder call), raised/msg (the exception that left the loop), header_q
\* (parent_q_lines as appended after the parent header)
RECURSIVE ChildLoop(_, _, _, _, _)
ChildLoop(ls, p, child_blocks, c_idx, acc) ==
    IF c_idx > Len(child_blocks) THEN acc
    ELSE
    LET c_start == child_blocks[c_idx][1]
        c_end == child_blocks[c_idx][2]
        child_content == Slice(ls, c_start + 1, c_end)
        is_major == (c_idx = 1)
        followup_no == IF is_major THEN acc.followup_no ELSE acc.followup_no + 1
        r == build_child_output_lines(child_content, is_major, followup_no)
        builds == Append(acc.builds,
                         [p |-> p, c |-> c_idx, raised |-> r.raised,
                          assembled |-> r.assembled, content |-> child_content,
                          question |-> r.question, answer |-> r.answer,
                          header_q |-> acc.header_q,
                          out |-> r.out])
    IN  IF r.raised
        THEN [acc EXCEPT !.raised = TRUE, !.msg = r.msg,
                         !.followup_no = followup_no, !.builds = builds]
        ELSE ChildLoop(ls, p, child_blocks, c_idx + 1,
                 [acc EXCEPT !.out = @ \o r.out
                                     \o (IF c_idx < Len(child_blocks)
                                         THEN <<EmptyLine>> ELSE <<>>),
                             !.followup_no = followup_no, !.builds = builds])

\* variant: the header keeps the blank lines at the end of the question
ParentQuestionLines_untrimmed(major_question_raw) == major_question_raw

\* parent_q_lines: the copy of the primary question, its trailing blank
\* lines removed
ParentQuestionLines(major_question_raw) == trim_trailing_blank(major_question_raw)

\* one iteration of the loop over the parent blocks
ParentIteration(ls, p, p_start, p_end, idd, outd, seq) ==
    LET sep == IF p > 1 THEN <<EmptyLine>> ELSE <<>>
        child_blocks == split_child_blocks(ls, p_start, p_end)
        none == [out |-> <<>>, followup_no |-> 0, builds |-> <<>>,
                 raised |-> TRUE, msg |-> <<>>, header_q |-> <<>>]
    IN  IF child_blocks = <<>> THEN [none EXCEPT !.msg = ErrNoChild(p)]
        ELSE
        LET major_child_content ==
                Slice(ls, child_blocks[1][1] + 1, child_blocks[1][2])
            splits == IndicesOf(major_child_content, 0, Len(major_child_content),
                                MARKER_QA_SPLIT)
        IN  IF splits = <<>> THEN none   \* StopIteration
            ELSE
            LET major_question_raw == Slice(major_child_content, 0, splits[1])
                m == extract_department_from_major_question(major_question_raw)
                dept == IF m.found THEN m.group ELSE <<>>
                qa_id == idd \o <<"-">> \o ZeroPad(DecStr(seq), 3)
                header == <<<<MARKER_PARENT>>,
                            <<"# QA-ID: ">> \o qa_id,
                            <<"- date: ">> \o outd,
                            <<"- dept: ">> \o dept>>
                parent_q_lines == ParentQuestionLines(major_question_raw)
                q_rel_idx == next_non_empty_index(parent_q_lines, 0)
            IN  IF q_rel_idx = NoneIdx
                THEN [none EXCEPT
                        !.msg = <<"no non-empty line in the primary question (parent chunk).">>]
                ELSE ChildLoop(ls, p, child_blocks, 1,
                         [out |-> sep \o header
                                  \o TagLine(parent_q_lines, q_rel_idx, TAG_Q)
                                  \o <<EmptyLine>>,
                          followup_no |-> 0, builds |-> <<>>,
                          raised |-> FALSE, msg |-> <<>>,
                          header_q |-> TagLine(parent_q_lines, q_rel_idx, TAG_Q)])

----------------------------------------------------------------------------
(* Inputs *)

MaxUnits == 4

L_PARENT == <<MARKER_PARENT>>
L_CHILD == <<MARKER_CHILD>>
L_SPLIT == <<MARKER_QA_SPLIT>>
L_CHILD_PADDED == <<" ", MARKER_CHILD>>
L_SPLIT_PADDED == <<MARKER_QA_SPLIT, " ">>
L_TEXT == <<"x">>
L_SPACES == <<" ">>
L_Q_TEXT == <<TAG_Q, "x">>
L_A_TEXT == <<TAG_A, "x">>
L_TEXT_PARENT == <<"x", MARKER_PARENT>>
L_CHILD_SPLIT == <<MARKER_CHILD, MARKER_QA_SPLIT>>

\* the pieces an input document is assembled from: single lines, a pair of
\* blank lines, a well-formed child block, and a parent marker followed by a
\* well-formed child block
Units ==
    { <<L_PARENT>>, <<L_CHILD_PADDED>>, <<L_SPLIT_PADDED>>, <<L_TEXT>>,
      <<EmptyLine, L_SPACES>>,
      <<L_CHILD, L_TEXT, L_SPLIT, L_TEXT>>,
      <<L_PARENT, L_CHILD, L_TEXT, L_SPLIT, L_TEXT>>,
      <<L_Q_TEXT>>, <<L_A_TEXT>>, <<L_TEXT_PARENT>>, <<L_CHILD_SPLIT>> }

\* the documents made of at most n units
RECURSIVE DocsOf(_)
DocsOf(n) ==
    IF n = 0 THEN {<<>>}
    ELSE LET shorter == DocsOf(n - 1)
         IN  shorter \cup {d \o u : d \in shorter, u \in Units}

Docs == DocsOf(MaxUnits)

\* a name with a valid date; names with an impossible date, without a date,
\* and with six digits that no "_" follows
GoodName == <<"2", "4", "0", "1", "1", "5", "_", "x">>

BadNames ==
    { <<"2", "3", "0", "2", "2", "9", "_", "x">>,
      <<"x", "_", "x">>,
      <<"2", "4", "0", "1", "1", "5", "x">> }

\* the 29th of February of the year 2000
LeapName == <<"0", "0", "0", "2", "2", "9", "_", "x">>

OtherNames == BadNames \cup {LeapName}

FileNames == {GoodName} \cup OtherNames

NoStats == [parent_count |-> 0, major_count |-> 0, followup_count |-> 0,
            warning_count |-> 0]

\* the locals of process_single_file before the call, and its artifacts
NoCall ==
    /\ lines = <<>>
    /\ fatal_errors = <<>>
    /\ out_date = <<>>
    /\ id_date = <<>>
    /\ p_idx = 0
    /\ qa_seq = 0
    /\ output_lines = <<>>
    /\ ok_written = FALSE
    /\ ok_file = <<>>
    /\ err_written = FALSE
    /\ err_file = <<>>
    /\ success = FALSE
    /\ err_msg = <<>>
    /\ stats = NoStats
    /\ had_file_error = FALSE
    /\ calls = <<>>
    /\ build_checks = <<>>

\* main is not running: process_single_file is called on its own
NoBatch ==
    /\ m_pc = "none"
    /\ all_files = <<>>
    /\ file_idx = 0
    /\ success_count = 0
    /\ error_count = 0
    /\ total_parent = 0
    /\ total_followup = 0
    /\ had_warning = FALSE
    /\ exit_code = NoneIdx
    /\ processed = <<>>
    /\ outcomes = <<>>
    /\ moved = {}

\* run_all is not running
NoPipeline ==
    /\ r_pc = "none"
    /\ script_idx = 0
    /\ r_had_warning = FALSE
    /\ started = <<>>
    /\ returncodes = <<>>
    /\ r_exit = NoneIdx

\* structured_to_department is not running
NoDepartment ==
    /\ d_pc = "none"
    /\ d_files = <<>>
    /\ d_idx = 0
    /\ d_success_count = 0
    /\ d_error_count = 0
    /\ d_total_parent = 0
    /\ d_had_file_error = FALSE
    /\ d_results = <<>>
    /\ d_out = {}
    /\ d_done = {}
    /\ d_exit = NoneIdx

\* move_structured_to_department is not running
NoMove ==
    /\ mv_pc = "none"
    /\ mv_files = <<>>
    /\ mv_idx = 0
    /\ mv_input = {}
    /\ mv_output = {}
    /\ mv_done = {}
    /\ mv_events = <<>>

NoOther == NoPipeline /\ NoDepartment /\ NoMove

\* extract_marked_sections is not running
NoExtraction ==
    /\ x_pc = "none"
    /\ elements = <<>>
    /\ in_parent = FALSE
    /\ in_skip = FALSE
    /\ found_parent_count = 0
    /\ last_was_empty = FALSE
    /\ is_first_output = TRUE
    /\ marker_just_output = FALSE
    /\ printed = <<>>
    /\ x_had_warning = FALSE
    /\ trace = <<>>
    /\ parent_count = NoneIdx

\* the file name is read only once the document has passed validation: the
\* other names are combined with the shorter documents
Init ==
    /\ \/ readable = TRUE /\ input_name = GoodName /\ file_content \in Docs
       \/ readable = TRUE /\ input_name \in OtherNames
                          /\ file_content \in DocsOf(MaxUnits - 1)
       \/ readable = FALSE /\ input_name \in FileNames /\ file_content = <<>>
    /\ pc = "start"
    /\ NoCall
    /\ NoBatch
    /\ NoExtraction
    /\ NoOther

----------------------------------------------------------------------------
(* Actions *)

\* variant: the except clause returns without writing the diagnostic artifact
ExceptionReturn_no_artifact(msg) ==
    /\ had_file_error' = TRUE
    /\ UNCHANGED <<err_written, err_file>>
    /\ success' = FALSE
    /\ err_msg' = msg
    /\ pc' = "done"

\* the except clause: notify_file_error, the diagnostic artifact, return False
ExceptionReturn(msg) ==
    /\ had_file_error' = TRUE
    /\ err_written' = TRUE
    /\ err_file' = FileLines(ExceptionErrorLines(msg))
    /\ success' = FALSE
    /\ err_msg' = msg
    /\ pc' = "done"

\* open() or the decoding of the input raises
ReadFails ==
    /\ pc = "start"
    /\ ~readable
    /\ ExceptionReturn(<<"cannot read the input file">>)
    /\ UNCHANGED <<input_name, readable, file_content, lines, fatal_errors, out_date, id_date,
                   p_idx, qa_seq, output_lines, ok_written, ok_file, stats, calls,
                   build_checks>>
    /\ UNCHANGED <<main_vars, extract_vars, other_vars>>

\* variant: the violations are written but the function does not return
Validate_no_return ==
    /\ pc = "start"
    /\ readable
    /\ lines' = file_content
    /\ fatal_errors' = validate_file_structure(file_content)
    /\ calls' = Append(calls, "validate_file_structure")
    /\ IF fatal_errors' # <<>>
       THEN /\ had_file_error' = TRUE
            /\ err_written' = TRUE
            /\ err_file' = FileLines(ValidationErrorLines(fatal_errors'))
            /\ err_msg' = JoinErrors(fatal_errors')
       ELSE UNCHANGED <<had_file_error, err_written, err_file, err_msg>>
    /\ pc' = "validated"
    /\ UNCHANGED <<input_name, readable, file_content, out_date, id_date, p_idx, qa_seq,
                   output_lines, ok_written, ok_file, success, stats, build_checks>>
    /\ UNCHANGED <<main_vars, extract_vars, other_vars>>

\* read the file, validate; on violations write the diagnostic artifact and return
Validate ==
    /\ pc = "start"
    /\ readable
    /\ lines' = file_content
    /\ fatal_errors' = validate_file_structure(file_content)
    /\ calls' = Append(calls, "validate_file_structure")
    /\ IF fatal_errors' # <<>>
       THEN /\ had_file_error' = TRUE
            /\ err_written' = TRUE
            /\ err_file' = FileLines(ValidationErrorLines(fatal_errors'))
            /\ err_msg' = JoinErrors(fatal_errors')
            /\ pc' = "done"
       ELSE /\ pc' = "validated"
            /\ UNCHANGED <<had_file_error, err_written, err_file, err_msg>>
    /\ UNCHANGED <<input_name, readable, file_content, out_date, id_date, p_idx, qa_seq,
                   output_lines, ok_written, ok_file, success, stats, build_checks>>
    /\ UNCHANGED <<main_vars, extract_vars, other_vars>>

\* normalize and write the structured output, return True
WriteOutput(final_lines) ==
    /\ output_lines' = normalize_blank_lines(final_lines)
    /\ ok_written' = TRUE
    /\ ok_file' = FileLines(normalize_blank_lines(final_lines))
    /\ success' = TRUE
    /\ pc' = "done"
    /\ UNCHANGED <<had_file_error, err_written, err_file, err_msg>>

\* variant: the record-identifier counter is module state, set once
DeriveDate_keeps_counter ==
    /\ pc = "validated"
    /\ calls' = Append(calls, "date_from_filename")
    /\ LET r == date_from_filename(input_name)
       IN  IF r.raised
           THEN /\ ExceptionReturn(r.msg)
                /\ UNCHANGED <<out_date, id_date, qa_seq, output_lines, ok_written,
                               ok_file>>
           ELSE /\ out_date' = r.out_date
                /\ id_date' = r.id_date
                /\ qa_seq' = IF qa_seq = 0 THEN 1 ELSE qa_seq
                /\ IF split_parent_blocks(lines) = <<>>
                   THEN WriteOutput(<<EmptyLine, EmptyLine>>)
                   ELSE /\ output_lines' = <<EmptyLine, EmptyLine>>
                        /\ pc' = "loop"
                        /\ UNCHANGED <<ok_written, ok_file, success, had_file_error,
                                       err_written, err_file, err_msg>>
    /\ p_idx' = 0
    /\ UNCHANGED <<input_name, readable, file_content, lines, fatal_errors, stats,
                   build_checks>>
    /\ UNCHANGED <<main_vars, extract_vars, other_vars>>

\* the date from the file name, then the initialisation of the parent loop
DeriveDate ==
    /\ pc = "validated"
    /\ calls' = Append(calls, "date_from_filename")
    /\ LET r == date_from_filename(input_name)
       IN  IF r.raised
           THEN /\ ExceptionReturn(r.msg)
                /\ UNCHANGED <<out_date, id_date, qa_seq, output_lines, ok_written,
                               ok_file>>
           ELSE /\ out_date' = r.out_date
                /\ id_date' = r.id_date
                /\ qa_seq' = 1
                /\ IF split_parent_blocks(lines) = <<>>
                   THEN WriteOutput(<<EmptyLine, EmptyLine>>)
                   ELSE /\ output_lines' = <<EmptyLine, EmptyLine>>
                        /\ pc' = "loop"
                        /\ UNCHANGED <<ok_written, ok_file, success, had_file_error,
                                       err_written, err_file, err_msg>>
    /\ p_idx' = 0
    /\ UNCHANGED <<input_name, readable, file_content, lines, fatal_errors, stats,
                   build_checks>>
    /\ UNCHANGED <<main_vars, extract_vars, other_vars>>

\* variant: the header question is tagged in the list read from the file
DocumentAfter_shared(ls, p_start, p_end) ==
    LET child_blocks == split_child_blocks(ls, p_start, p_end)
        i == IF child_blocks = <<>> THEN NoneIdx
             ELSE next_non_empty_index(ls, child_blocks[1][1] + 1)
    IN  IF i = NoneIdx \/ i >= p_end THEN ls ELSE TagLine(ls, i, TAG_Q)

\* the list `lines` after one iteration of the parent loop: lines[a:b] and
\* list(...) build new lists, and pop() and the item assignments of the
\* iteration act on those
DocumentAfter(ls, p_start, p_end) == ls

\* one iteration of the loop over the parent blocks; the last one is followed
\* by the normalisation and the write of the structured output
TransformParent ==
    /\ pc = "loop"
    /\ LET parent_blocks == split_parent_blocks(lines)
           p == p_idx + 1
           r == ParentIteration(lines, p, parent_blocks[p][1], parent_blocks[p][2],
                                id_date, out_date, qa_seq)
       IN  /\ p_idx' = p
           /\ stats' = [stats EXCEPT !.parent_count = @ + 1, !.major_count = @ + 1,
                                     !.followup_count = @ + r.followup_no]
           /\ calls' = calls \o [k \in 1..Len(r.builds) |-> "build_child_output_lines"]
           /\ build_checks' = build_checks \o r.builds
           /\ IF r.raised
              THEN /\ ExceptionReturn(r.msg)
                   /\ UNCHANGED <<qa_seq, output_lines, ok_written, ok_file>>
              ELSE /\ qa_seq' = qa_seq + 1
                   /\ IF p = Len(parent_blocks)
                      THEN WriteOutput(output_lines \o r.out)
                      ELSE /\ output_lines' = output_lines \o r.out
                           /\ UNCHANGED <<pc, ok_written, ok_file, success,
                                          had_file_error, err_written, err_file,
                                          err_msg>>
           /\ lines' = DocumentAfter(lines, parent_blocks[p][1], parent_blocks[p][2])
    /\ UNCHANGED <<input_name, readable, file_content, fatal_errors, out_date, id_date>>
    /\ UNCHANGED <<main_vars, extract_vars, other_vars>>

Next == ReadFails \/ Validate \/ DeriveDate \/ TransformParent

Spec == Init /\ [][Next]_vars

----------------------------------------------------------------------------
(* Documents with department labels *)

MaxDeptBlocks == 2

Q_DEPT == <<"[[", "x", "]]">>
Q_EMPTY_FIRST == <<"[[", "]]", "[[", "x", "]]">>
Q_NESTED == <<"x", "[[", "[[", "x", "]]", "x">>
Q_UNPAIRED == <<"]]", "x", "[[">>

\* lines between the PARENT line and the first CHILD line
DeptLeads == {<<>>, <<Q_DEPT>>}

\* question segments of the primary child block
DeptQuestions ==
    { <<L_TEXT>>, <<Q_DEPT>>, <<Q_EMPTY_FIRST>>, <<Q_NESTED>>, <<Q_UNPAIRED>>,
      <<L_TEXT, Q_DEPT>>, <<Q_UNPAIRED, EmptyLine, Q_EMPTY_FIRST, Q_DEPT>> }

\* what follows the divider of the primary child block: an answer, an answer
\* with a label, an answer and a follow-up block with a label in its question
DeptTails ==
    { <<L_TEXT>>, <<Q_DEPT>>, <<L_TEXT, L_CHILD, Q_DEPT, L_SPLIT, L_TEXT>> }

DeptBlocks ==
    {<<L_PARENT>> \o lead \o <<L_CHILD>> \o q \o <<L_SPLIT>> \o t :
        lead \in DeptLeads, q \in DeptQuestions, t \in DeptTails}

RECURSIVE DeptDocsOf(_)
DeptDocsOf(n) ==
    IF n = 0 THEN {<<>>}
    ELSE LET shorter == DeptDocsOf(n - 1)
         IN  shorter \cup {d \o b : d \in shorter, b \in DeptBlocks}

InitDept ==
    /\ input_name = GoodName
    /\ \/ readable = TRUE /\ file_content \in DeptDocsOf(MaxDeptBlocks)
       \/ readable = FALSE /\ file_content = <<>>
    /\ pc = "start"
    /\ NoCall
    /\ NoBatch
    /\ NoExtraction
    /\ NoOther

SpecDept == InitDept /\ [][Next]_vars

----------------------------------------------------------------------------
(* The batch: main *)

MaxFiles == 3

\* the files of the input directory: documents with three parent blocks
\* (different department labels), with one, with none; a document without
\* PARENT line; a name without date; a file that cannot be read; a document
\* whose answer holds a line that starts with the answer tag
F_MANY ==
    [name |-> GoodName, readable |-> TRUE,
     content |-> <<L_PARENT, L_CHILD, <<"[[", "x", "]]">>, L_SPLIT, L_TEXT,
                   L_PARENT, L_CHILD, L_TEXT, L_SPLIT, L_TEXT,
                   L_CHILD, L_TEXT, L_SPLIT, L_TEXT,
                   L_PARENT, L_CHILD, <<"[[", "x", "x", "]]">>, L_SPLIT, L_TEXT>>]

F_ONE ==
    [name |-> <<"2", "4", "0", "1", "1", "6", "_", "x">>, readable |-> TRUE,
     content |-> <<L_PARENT, L_CHILD, L_TEXT, L_SPLIT, L_TEXT>>]

F_NONE ==
    [name |-> <<"2", "4", "0", "1", "1", "7", "_", "x">>, readable |-> TRUE,
     content |-> <<>>]

F_INVALID ==
    [name |-> <<"2", "4", "0", "1", "1", "8", "_", "x">>, readable |-> TRUE,
     content |-> <<L_TEXT, L_CHILD_SPLIT>>]

F_NODATE ==
    [name |-> <<"x", "_", "x">>, readable |-> TRUE,
     content |-> <<L_PARENT, L_CHILD, L_TEXT, L_SPLIT, L_TEXT>>]

F_UNREADABLE ==
    [name |-> <<"2", "4", "0", "1", "1", "9", "_", "x">>, readable |-> FALSE,
     content |-> <<>>]

F_TAGGED ==
    [name |-> <<"2", "4", "0", "1", "2", "0", "_", "x">>, readable |-> TRUE,
     content |-> <<L_PARENT, L_CHILD, L_TEXT, L_SPLIT, L_TEXT, L_A_TEXT>>]

BatchFiles == {F_MANY, F_ONE, F_NONE, F_INVALID, F_NODATE, F_UNREADABLE, F_TAGGED}

\* the listings of a directory: the files of a listing have different names
RECURSIVE ListingsOf(_)
ListingsOf(n) ==
    IF n = 0 THEN {<<>>}
    ELSE LET shorter == ListingsOf(n - 1)
         IN  shorter \cup {Append(l, f) : l \in {x \in shorter : Len(x) = n - 1},
                                          f \in BatchFiles}

Listings ==
    {l \in ListingsOf(MaxFiles) : \A i, j \in 1..Len(l) : l[i] = l[j] => i = j}

InitMain ==
    /\ all_files \in Listings
    /\ m_pc = "start"
    /\ file_idx = 0
    /\ success_count = 0
    /\ error_count = 0
    /\ total_parent = 0
    /\ total_followup = 0
    /\ had_warning = FALSE
    /\ exit_code = NoneIdx
    /\ processed = <<>>
    /\ outcomes = <<>>
    /\ moved = {}
    /\ input_name = <<>>
    /\ readable = FALSE
    /\ file_content = <<>>
    /\ pc = "idle"
    /\ NoCall
    /\ NoExtraction
    /\ NoOther

\* all_files = list(...glob(...)); without a file main returns EXIT_ERROR
Discover ==
    /\ m_pc = "start"
    /\ IF all_files = <<>>
       THEN /\ exit_code' = EXIT_ERROR
            /\ m_pc' = "returned"
       ELSE /\ m_pc' = "loop"
            /\ UNCHANGED exit_code
    /\ UNCHANGED <<all_files, file_idx, success_count, error_count, total_parent,
                   total_followup, had_warning, processed, outcomes, moved>>
    /\ UNCHANGED <<engine_vars, extract_vars, other_vars>>

\* the next iteration of the loop over all_files, up to the call of
\* process_single_file: a new frame (stats) and new output paths; the other
\* locals keep their value until the function assigns them
StartFile ==
    /\ m_pc = "loop"
    /\ pc = "idle"
    /\ file_idx < Len(all_files)
    /\ file_idx' = file_idx + 1
    /\ input_name' = all_files[file_idx + 1].name
    /\ readable' = all_files[file_idx + 1].readable
    /\ file_content' = all_files[file_idx + 1].content
    /\ processed' = Append(processed, all_files[file_idx + 1].name)
    /\ pc' = "start"
    /\ stats' = NoStats
    /\ ok_written' = FALSE
    /\ ok_file' = <<>>
    /\ err_written' = FALSE
    /\ err_file' = <<>>
    /\ success' = FALSE
    /\ err_msg' = <<>>
    /\ calls' = <<>>
    /\ build_checks' = <<>>
    /\ UNCHANGED <<lines, fatal_errors, out_date, id_date, p_idx, qa_seq, output_lines,
                   had_file_error>>
    /\ UNCHANGED <<m_pc, all_files, success_count, error_count, total_parent,
                   total_followup, had_warning, exit_code, outcomes, moved>>
    /\ UNCHANGED <<extract_vars, other_vars>>

\* variant: the first file that fails ends the loop
FinishFile_stops_on_error ==
    /\ m_pc = "loop"
    /\ pc = "done"
    /\ pc' = "idle"
    /\ outcomes' = Append(outcomes,
                          [name |-> input_name, success |-> success,
                           ok_written |-> ok_written, ok_file |-> ok_file,
                           err_written |-> err_written, err_file |-> err_file])
    /\ IF success
       THEN /\ success_count' = success_count + 1
            /\ total_parent' = total_parent + stats.parent_count
            /\ total_followup' = total_followup + stats.followup_count
            /\ UNCHANGED error_count
            /\ \E renamed \in BOOLEAN :
                   IF renamed
                   THEN /\ moved' = moved \cup {input_name}
                        /\ UNCHANGED had_warning
                   ELSE /\ had_warning' = TRUE
                        /\ UNCHANGED moved
       ELSE /\ error_count' = error_count + 1
            /\ UNCHANGED <<success_count, total_parent, total_followup, had_warning, moved>>
    /\ m_pc' = IF success THEN m_pc ELSE "returned"
    /\ exit_code' = IF success THEN exit_code ELSE EXIT_WARNING
    /\ UNCHANGED <<all_files, file_idx, processed>>
    /\ UNCHANGED <<input_name, readable, file_content, lines, fatal_errors, out_date,
                   id_date, p_idx, qa_seq, output_lines, ok_written, ok_file, err_written,
                   err_file, success, err_msg, stats, had_file_error, calls, build_checks>>
    /\ UNCHANGED <<extract_vars, other_vars>>

\* the rest of the iteration, after process_single_file has returned: the
\* counters, and on success the move of the input file, which can fail
FinishFile ==
    /\ m_pc = "loop"
    /\ pc = "done"
    /\ pc' = "idle"
    /\ outcomes' = Append(outcomes,
                          [name |-> input_name, success |-> success,
                           ok_written |-> ok_written, ok_file |-> ok_file,
                           err_written |-> err_written, err_file |-> err_file])
    /\ IF success
       THEN /\ success_count' = success_count + 1
            /\ total_parent' = total_parent + stats.parent_count
            /\ total_followup' = total_followup + stats.followup_count
            /\ UNCHANGED error_count
            /\ \E renamed \in BOOLEAN :
                   IF renamed
                   THEN /\ moved' = moved \cup {input_name}
                        /\ UNCHANGED had_warning
                   ELSE /\ had_warning' = TRUE
                        /\ UNCHANGED moved
       ELSE /\ error_count' = error_count + 1
            /\ UNCHANGED <<success_count, total_parent, total_followup, had_warning, moved>>
    /\ UNCHANGED <<m_pc, all_files, file_idx, exit_code, processed>>
    /\ UNCHANGED <<input_name, readable, file_content, lines, fatal_errors, out_date,
                   id_date, p_idx, qa_seq, output_lines, ok_written, ok_file, err_written,
                   err_file, success, err_msg, stats, had_file_error, calls, build_checks>>
    /\ UNCHANGED <<extract_vars, other_vars>>

\* variant: a failed move does not count
Summarize_ignores_warning ==
    /\ m_pc = "loop"
    /\ pc = "idle"
    /\ file_idx = Len(all_files)
    /\ exit_code' = IF had_file_error \/ error_count > 0
                    THEN EXIT_WARNING ELSE EXIT_OK
    /\ m_pc' = "returned"
    /\ UNCHANGED <<all_files, file_idx, success_count, error_count, total_parent,
                   total_followup, had_warning, processed, outcomes, moved>>
    /\ UNCHANGED <<engine_vars, extract_vars, other_vars>>

\* after the loop: the exit code
Summarize ==
    /\ m_pc = "loop"
    /\ pc = "idle"
    /\ file_idx = Len(all_files)
    /\ exit_code' = IF had_warning \/ had_file_error \/ error_count > 0
                    THEN EXIT_WARNING ELSE EXIT_OK
    /\ m_pc' = "returned"
    /\ UNCHANGED <<all_files, file_idx, success_count, error_count, total_parent,
                   total_followup, had_warning, processed, outcomes, moved>>
    /\ UNCHANGED <<engine_vars, extract_vars, other_vars>>

NextMain ==
    \/ Discover
    \/ StartFile
    \/ ReadFails
    \/ Validate
    \/ DeriveDate
    \/ TransformParent
    \/ FinishFile
    \/ Summarize

SpecMain == InitMain /\ [][NextMain]_vars

----------------------------------------------------------------------------
(* Vocabulary of the properties, stated on the documents themselves *)

\* a line that is empty or holds whitespace only
BlankLine(line) == \A k \in 1..Len(line) : line[k] = " "

\* a line that, apart from surrounding whitespace, is the marker m
MarkerLine(line, m) ==
    /\ Cardinality({k \in 1..Len(line) : line[k] # " "}) = 1
    /\ \E k \in 1..Len(line) : line[k] = m

Returned == pc = "done"

Succeeded == pc = "done" /\ success

Failed == pc = "done" /\ ~success

----------------------------------------------------------------------------
(* C1 *)

\* C1: the structured output starts with two blank lines, its third line is
\* not blank, and no two adjacent lines after the first two are both blank.
C1_BlankLineInvariant ==
    Succeeded =>
        /\ Len(ok_file) >= 3
        /\ BlankLine(ok_file[1])
        /\ BlankLine(ok_file[2])
        /\ ~BlankLine(ok_file[3])
        /\ \A i \in 3..(Len(ok_file) - 1) :
               ~(BlankLine(ok_file[i]) /\ BlankLine(ok_file[i + 1]))

\* a successful file whose child content holds two adjacent blank lines
\* followed by text, and whose output keeps one blank line of them
C1_Witness ==
    /\ Succeeded
    /\ \E i \in 1..(Len(file_content) - 2) :
          /\ BlankLine(file_content[i])
          /\ BlankLine(file_content[i + 1])
          /\ file_content[i + 2] = L_TEXT
    /\ \E i \in 4..(Len(ok_file) - 1) : BlankLine(ok_file[i]) /\ ok_file[i + 1] = L_TEXT

----------------------------------------------------------------------------
(* C2 *)

\* C2: when process_single_file has returned, exactly one artifact exists:
\* the structured output if and only if it returned success, the diagnostic
\* artifact otherwise; before it returns nothing has been written.
C2_ExactlyOneArtifact ==
    /\ Returned => /\ (ok_written <=> success)
                   /\ (err_written <=> ~success)
    /\ ~Returned => ~ok_written /\ ~err_written

\* a file that passed validation and raised in the middle of the transformation
C2_Witness ==
    /\ Failed
    /\ fatal_errors = <<>>
    /\ build_checks # <<>>
    /\ err_written
    /\ ~ok_written

----------------------------------------------------------------------------
(* C3 *)

\* C3: on a document without violations every call of
\* build_child_output_lines passes its final check (exactly one line with
\* the question tag, exactly one with the answer tag, the question first)
\* and raises nothing.
C3_BuilderPostcondition ==
    (calls # <<>> /\ fatal_errors = <<>>) =>
        \A k \in 1..Len(build_checks) :
            LET out == build_checks[k].assembled
                qs == {i \in 1..Len(out) : Len(out[i]) >= 1 /\ out[i][1] = TAG_Q}
                as == {i \in 1..Len(out) : Len(out[i]) >= 1 /\ out[i][1] = TAG_A}
            IN  /\ ~build_checks[k].raised
                /\ Cardinality(qs) = 1
                /\ Cardinality(as) = 1
                /\ \A i \in qs : \A j \in as : i < j

----------------------------------------------------------------------------
(* The block structure of the input file, by position (1-based) *)

Validated == calls # <<>>

ParentPos == {i \in 1..Len(file_content) : MarkerLine(file_content[i], MARKER_PARENT)}

ChildPos == {i \in 1..Len(file_content) : MarkerLine(file_content[i], MARKER_CHILD)}

SplitPos == {i \in 1..Len(file_content) : MarkerLine(file_content[i], MARKER_QA_SPLIT)}

\* the first position of starts after i, or limit
NextStart(i, starts, limit) ==
    IF {j \in starts : j > i} = {} THEN limit
    ELSE CHOOSE j \in starts : j > i /\ \A k \in starts : k > i => j <= k

Ordinal(i, starts) == Cardinality({j \in starts : j <= i})

Nth(starts, k) == CHOOSE i \in starts : Ordinal(i, starts) = k

\* one record per parent block [pos, end): its ordinal p and the positions
\* of its CHILD marker lines
ParentBlocks ==
    LET pps == ParentPos
        cps == ChildPos
    IN  {[pos |-> pp, p |-> Ordinal(pp, pps),
          end |-> NextStart(pp, pps, Len(file_content) + 1),
          kids |-> {c \in cps : pp < c /\ c < NextStart(pp, pps, Len(file_content) + 1)}]
         : pp \in pps}

\* one record per child block [pos, end): the ordinals p and c, the positions
\* of its divider lines, and whether text exists on each side of the first
ChildBlocksOf(pb) ==
    LET sps == SplitPos
    IN  {LET end == NextStart(cp, pb.kids, pb.end)
             divs == {d \in sps : cp < d /\ d < end}
             first == IF divs = {} THEN end ELSE NextStart(cp, divs, end)
         IN  [pos |-> cp, p |-> pb.p, c |-> Ordinal(cp, pb.kids), end |-> end,
              ndivs |-> Cardinality(divs),
              qtext |-> \E j \in (cp + 1)..(first - 1) : ~BlankLine(file_content[j]),
              atext |-> \E j \in (first + 1)..(end - 1) : ~BlankLine(file_content[j])]
         : cp \in pb.kids}

ChildBlocks == UNION {ChildBlocksOf(pb) : pb \in ParentBlocks}

Malformed(cb) == cb.ndivs # 1 \/ ~cb.qtext \/ ~cb.atext

\* the violations that name child block c of parent block p
ChildViolations(p, c) ==
    {ErrNoSplit(p, c), ErrMultiSplit(p, c), ErrNoQuestion(p, c), ErrNoAnswer(p, c)}

IsMarkerNotAlone(e) ==
    \E i \in 1..Len(file_content) : e = ErrMarkerNotAlone(i, file_content[i])

\* the messages of the per-block checks hold no text of the document
IsStructural(e) ==
    \A k \in 1..Len(e) : e[k] # "(line): marker is not alone on its line: "

Reported == {fatal_errors[k] : k \in 1..Len(fatal_errors)}

----------------------------------------------------------------------------
(* C4 *)

\* C4: a document without a PARENT marker line is rejected with the
\* "no PARENT" violation as the last entry, every other entry being a
\* marker-not-alone violation, and no structured output is written.
C4_NoParentHalts ==
    (Validated /\ ParentPos = {}) =>
        /\ fatal_errors # <<>>
        /\ fatal_errors[Len(fatal_errors)] = ErrNoParent
        /\ \A k \in 1..(Len(fatal_errors) - 1) : IsMarkerNotAlone(fatal_errors[k])
        /\ Failed
        /\ ~ok_written
        /\ err_written

\* a document without PARENT that holds a child block without a divider
C4_Witness ==
    /\ Validated
    /\ ParentPos = {}
    /\ ChildPos # {}
    /\ SplitPos = {}
    /\ Failed

----------------------------------------------------------------------------
(* C5 *)

\* C5: with at least one parent block, every malformed unit is reported: the
\* number of violations other than marker-not-alone ones is the number of
\* parent blocks without child plus the number of malformed child blocks,
\* and each such unit has a violation that names it.
C5_AllUnitsReported ==
    (Validated /\ ParentPos # {}) =>
        LET pbs == ParentBlocks
            cbs == UNION {ChildBlocksOf(pb) : pb \in pbs}
            rep == Reported
        IN  /\ Len(SelectSeq(fatal_errors, IsStructural))
                 = Cardinality({pb \in pbs : pb.kids = {}})
                   + Cardinality({cb \in cbs : Malformed(cb)})
            /\ \A pb \in pbs : pb.kids = {} => ErrNoChild(pb.p) \in rep
            /\ \A cb \in cbs :
                   Malformed(cb) => ChildViolations(cb.p, cb.c) \cap rep # {}

\* two malformed child blocks in one parent block
C5_Witness ==
    /\ Validated
    /\ Len(SelectSeq(fatal_errors, IsStructural)) >= 2
    /\ \E b1 \in ChildBlocks : \E b2 \in ChildBlocks :
          /\ b1.p = b2.p
          /\ b1.c < b2.c
          /\ Malformed(b1)
          /\ Malformed(b2)

----------------------------------------------------------------------------
(* C6 *)

\* the violation the ordered checks give for a malformed child block
FirstFailingCheck(cb) ==
    IF cb.ndivs = 0 THEN ErrNoSplit(cb.p, cb.c)
    ELSE IF cb.ndivs >= 2 THEN ErrMultiSplit(cb.p, cb.c)
    ELSE IF ~cb.qtext THEN ErrNoQuestion(cb.p, cb.c)
    ELSE ErrNoAnswer(cb.p, cb.c)

\* C6: a child block yields at most one violation, the one of the first
\* failing check in the order divider count, question text, answer text.
C6_FirstFailingCheckOnly ==
    Validated =>
        \A cb \in ChildBlocks :
            LET viol == ChildViolations(cb.p, cb.c)
                named == {k \in 1..Len(fatal_errors) : fatal_errors[k] \in viol}
            IN  /\ Cardinality(named) <= 1
                /\ Malformed(cb) =>
                       \E k \in named : fatal_errors[k] = FirstFailingCheck(cb)
                /\ ~Malformed(cb) => named = {}

\* a child block with two dividers and no text at all: one violation
C6_Witness ==
    /\ Validated
    /\ \E cb \in ChildBlocks :
          /\ cb.ndivs = 2
          /\ ~cb.qtext
          /\ \A j \in (cb.pos + 1)..(cb.end - 1) :
                 BlankLine(file_content[j]) \/ j \in SplitPos
          /\ ErrMultiSplit(cb.p, cb.c) \in Reported
          /\ Cardinality({k \in 1..Len(fatal_errors) :
                             fatal_errors[k] \in ChildViolations(cb.p, cb.c)}) = 1

----------------------------------------------------------------------------
(* C7 *)

EmbedsMarker(line) ==
    \E m \in {MARKER_PARENT, MARKER_CHILD, MARKER_QA_SPLIT} :
        /\ \E k \in 1..Len(line) : line[k] = m
        /\ ~MarkerLine(line, m)

\* C7: every line that holds a marker token without being that marker line
\* has a marker-not-alone violation with its 1-based number, wherever it is.
C7_EmbeddedMarkersReported ==
    Validated =>
        \A i \in 1..Len(file_content) :
            EmbedsMarker(file_content[i]) =>
                ErrMarkerNotAlone(i, file_content[i]) \in Reported

\* an embedded marker before the first PARENT marker of a document that has one
C7_Witness ==
    /\ Validated
    /\ ParentPos # {}
    /\ \E i \in 1..Len(file_content) :
          /\ EmbedsMarker(file_content[i])
          /\ \A pp \in ParentPos : i < pp
          /\ ErrMarkerNotAlone(i, file_content[i]) \in Reported

----------------------------------------------------------------------------
(* C8 *)

\* C8: the stages run in the order validation, date derivation, building;
\* with a non-empty violation list neither the date derivation nor the
\* builder is called, and the diagnostic artifact lists the violations, one
\* bullet each, whatever the file name is.
C8_StageOrder ==
    /\ \A k \in 1..Len(calls) :
          /\ (calls[k] = "validate_file_structure") <=> (k = 1)
          /\ (calls[k] = "date_from_filename") <=> (k = 2)
    /\ fatal_errors # <<>> =>
          /\ calls = <<"validate_file_structure">>
          /\ Failed
          /\ Len(err_file) = 3 + Len(fatal_errors)
          /\ \A k \in 1..Len(fatal_errors) : err_file[3 + k] = <<"- ">> \o fatal_errors[k]

\* a file with grammar violations whose name holds no date
C8_Witness ==
    /\ Failed
    /\ fatal_errors # <<>>
    /\ input_name = <<"x", "_", "x">>
    /\ Len(err_file) = 3 + Len(fatal_errors)

----------------------------------------------------------------------------
(* The sections of the structured output *)

\* positions of the parent headers: a PARENT line followed by the identifier line
HeaderPos ==
    {i \in 1..(Len(ok_file) - 1) :
        /\ ok_file[i] = <<MARKER_PARENT>>
        /\ Len(ok_file[i + 1]) >= 1
        /\ ok_file[i + 1][1] = "# QA-ID: "}

\* the lines of the k-th section, from its header to the next header
Section(k) ==
    LET hs == HeaderPos
        from == Nth(hs, k)
    IN  SubSeq(ok_file, from, NextStart(from, hs, Len(ok_file) + 1) - 1)

IsTitle(line) ==
    Len(line) >= 1 /\ line[1] \in {"## primary QA", "## follow-up"}

\* the title lines of a section: the lines that follow its CHILD lines
TitlesOf(section) ==
    LET at == {i \in 2..Len(section) : section[i - 1] = <<MARKER_CHILD>>}
    IN  [k \in 1..Cardinality(at) |-> section[Nth(at, k)]]

\* an output line is the input line, or the input line behind one tag
SameText(out_line, in_line) ==
    \/ out_line = in_line
    \/ /\ Len(out_line) >= 1
       /\ out_line[1] \in {TAG_Q, TAG_A}
       /\ Tail(out_line) = in_line

\* the text of a section from its first CHILD line on: no blank line, no
\* CHILD line, no title
RECURSIVE SectionText(_, _)
SectionText(section, seen_child) ==
    IF section = <<>> THEN <<>>
    ELSE LET l == Head(section)
         IN  IF l = <<MARKER_CHILD>> THEN SectionText(Tail(section), TRUE)
             ELSE IF ~seen_child \/ BlankLine(l) \/ IsTitle(l)
             THEN SectionText(Tail(section), seen_child)
             ELSE <<l>> \o SectionText(Tail(section), seen_child)

\* the text of the lines lo..hi of the input: no blank line, no CHILD marker
\* line, no divider line
RECURSIVE InputText(_, _)
InputText(lo, hi) ==
    IF lo > hi THEN <<>>
    ELSE LET l == file_content[lo]
         IN  IF BlankLine(l) \/ MarkerLine(l, MARKER_CHILD) \/ MarkerLine(l, MARKER_QA_SPLIT)
             THEN InputText(lo + 1, hi)
             ELSE <<l>> \o InputText(lo + 1, hi)

\* the smallest element of a non-empty set of positions
Least(positions) == CHOOSE i \in positions : \A j \in positions : i <= j

----------------------------------------------------------------------------
(* C9 *)

\* C9: the output of a successful file has as many parent headers as the
\* input has PARENT marker lines, and its k-th section holds the child
\* blocks and the text of the k-th parent block of the input.
C9_ParentCountAndOrder ==
    Succeeded =>
        /\ Cardinality(HeaderPos) = Cardinality(ParentPos)
        /\ \A pb \in ParentBlocks :
               LET section == Section(pb.p)
                   out_text == SectionText(section, FALSE)
                   in_text == InputText(Least(pb.kids) + 1, pb.end - 1)
               IN  /\ Len(TitlesOf(section)) = Cardinality(pb.kids)
                   /\ Len(out_text) = Len(in_text)
                   /\ \A i \in 1..Len(in_text) : SameText(out_text[i], in_text[i])

\* two parent blocks with different numbers of child blocks
C9_Witness ==
    /\ Succeeded
    /\ Cardinality(HeaderPos) = 2
    /\ \E b1 \in ParentBlocks : \E b2 \in ParentBlocks :
          b1.p < b2.p /\ Cardinality(b1.kids) > Cardinality(b2.kids)

----------------------------------------------------------------------------
(* C10 *)

ExpectedTitles(n) ==
    [j \in 1..n |-> IF j = 1 THEN <<"## primary QA">>
                    ELSE <<"## follow-up">> \o DecStr(j - 1)]

\* C10: in every section of a successful output the titles are the primary
\* title followed by follow-up 1..N, one per CHILD marker of the parent block.
C10_FollowUpNumbering ==
    Succeeded =>
        \A pb \in ParentBlocks :
            TitlesOf(Section(pb.p)) = ExpectedTitles(Cardinality(pb.kids))

\* two parent blocks that both have a follow-up
C10_Witness ==
    /\ Succeeded
    /\ Cardinality(ParentPos) >= 2
    /\ \A pb \in ParentBlocks : Cardinality(pb.kids) >= 2
    /\ \A pb \in ParentBlocks :
           TitlesOf(Section(pb.p))[2] = <<"## follow-up", "1">>

----------------------------------------------------------------------------
(* The files of a batch *)

\* the positions of the header lines of a structured output
HeadersOf(file) == {i \in 1..Len(file) : file[i] = <<MARKER_PARENT>>}

\* the file of the listing that has the name n
FileNamed(n) == CHOOSE f \in BatchFiles : f.name = n

\* the number of PARENT lines of a document
ParentLinesOf(content) ==
    Cardinality({i \in 1..Len(content) : MarkerLine(content[i], MARKER_PARENT)})

\* the record identifier of the k-th block of the file named n, written out:
\* "20", the six digits of the name, "-", k on three digits
ExpectedId(n, k) ==
    <<"2", "0">> \o SubSeq(n, 1, 6) \o <<"-">>
    \o <<Digit(k \div 100), Digit((k \div 10) % 10), Digit(k % 10)>>

----------------------------------------------------------------------------
(* C11 *)

\* C11: in the output of every successfully transformed file of a batch, the
\* k-th parent block carries the identifier <date digits>-<k on 3 digits>,
\* k = 1, 2, ... restarting in every file, one per PARENT line of the input
\* whatever the department labels; the identifiers of a file are distinct.
C11_RecordIdentifiers ==
    \A n \in 1..Len(outcomes) :
        outcomes[n].success =>
            LET o == outcomes[n]
                at == HeadersOf(o.ok_file)
                id(k) == o.ok_file[Nth(at, k) + 1]
            IN  /\ Cardinality(at) = ParentLinesOf(FileNamed(o.name).content)
                /\ \A k \in 1..Cardinality(at) :
                       id(k) = <<"# QA-ID: ">> \o ExpectedId(o.name, k)
                /\ \A j, k \in 1..Cardinality(at) : id(j) = id(k) => j = k

\* a batch in which the file of three blocks, with three different department
\* lines, was transformed after another file had been transformed
C11_Witness ==
    /\ m_pc = "returned"
    /\ \E i, j \in 1..Len(outcomes) :
           /\ i < j
           /\ outcomes[i].success /\ outcomes[i].name = F_ONE.name
           /\ outcomes[j].success /\ outcomes[j].name = F_MANY.name
           /\ Cardinality(HeadersOf(outcomes[j].ok_file)) = 3
           /\ \A a, b \in HeadersOf(outcomes[j].ok_file) :
                  outcomes[j].ok_file[a + 3] = outcomes[j].ok_file[b + 3] => a = b

----------------------------------------------------------------------------
(* C12 *)

\* the lines of ls that are not blank, in order
RECURSIVE NonBlankLines(_)
NonBlankLines(ls) ==
    IF ls = <<>> THEN <<>>
    ELSE IF BlankLine(Head(ls)) THEN NonBlankLines(Tail(ls))
    ELSE <<Head(ls)>> \o NonBlankLines(Tail(ls))

\* the lines of ls that are not the divider line, in order
RECURSIVE WithoutDivider(_)
WithoutDivider(ls) ==
    IF ls = <<>> THEN <<>>
    ELSE IF MarkerLine(Head(ls), MARKER_QA_SPLIT) THEN WithoutDivider(Tail(ls))
    ELSE <<Head(ls)>> \o WithoutDivider(Tail(ls))

\* C12: on a document without violations every call of
\* build_child_output_lines returns, below the CHILD line and the title, the
\* text lines of the block content in order (the first of each segment
\* behind its tag) without the one divider line; and no line of the
\* structured output is the divider marker.
C12_DividerExclusivity ==
    (calls # <<>> /\ fatal_errors = <<>>) =>
        /\ \A k \in 1..Len(build_checks) :
               LET b == build_checks[k]
                   kept == NonBlankLines(WithoutDivider(b.content))
                   body == NonBlankLines(SubSeq(b.out, 3, Len(b.out)))
               IN  /\ ~b.raised
                   /\ Len(WithoutDivider(b.content)) = Len(b.content) - 1
                   /\ Len(body) = Len(kept)
                   /\ \A i \in 1..Len(kept) : SameText(body[i], kept[i])
        /\ \A i \in 1..Len(ok_file) : ~MarkerLine(ok_file[i], MARKER_QA_SPLIT)

----------------------------------------------------------------------------
(* C13 *)

\* process_single_file has gone past the derivation of the date
DateStepDone == pc \in {"loop", "done"} /\ Len(calls) >= 2

SixDigits(n) == Len(n) >= 6 /\ \A i \in 1..6 : IsDigit(n[i])

\* the value of the two digits a, b
TwoDigits(a, b) ==
    10 * (CHOOSE v \in 0..9 : Digit(v) = a) + (CHOOSE v \in 0..9 : Digit(v) = b)

\* the days of the months of a year of 2000..2099: leap every fourth year
MonthDays(yy) ==
    <<31, IF yy % 4 = 0 THEN 29 ELSE 28, 31, 30, 31, 30, 31, 31, 30, 31, 30, 31>>

\* the name begins with six digits and "_", the digits being a day of the calendar
DatedName(n) ==
    /\ SixDigits(n)
    /\ Len(n) >= 7 /\ n[7] = "_"
    /\ TwoDigits(n[3], n[4]) \in 1..12
    /\ TwoDigits(n[5], n[6]) \in 1..MonthDays(TwoDigits(n[1], n[2]))[TwoDigits(n[3], n[4])]

\* the date 20YY-MM-DD and the identifier prefix 20YYMMDD, written out
DateDerived(n) ==
    /\ out_date = <<"2", "0", n[1], n[2], "-", n[3], n[4], "-", n[5], n[6]>>
    /\ id_date = <<"2", "0", n[1], n[2], n[3], n[4], n[5], n[6]>>
    /\ Succeeded =>
           \A i \in HeadersOf(ok_file) :
               /\ SubSeq(ok_file[i + 1], 1, 9) = <<"# QA-ID: ">> \o id_date
               /\ ok_file[i + 2] = <<"- date: ">> \o out_date

\* the file has failed: a diagnostic artifact with one exception bullet, no
\* structured output
DateFailure ==
    /\ Failed
    /\ ~ok_written
    /\ err_written
    /\ Len(err_file) = 4
    /\ SubSeq(err_file, 1, 3)
         = <<EmptyLine, EmptyLine, <<"ERROR: a runtime exception occurred.">>>>
    /\ err_file[4][1] = "- "
    /\ Len(build_checks) = 0

\* C13 (amended): for a document without violations, a file name that begins
\* with six digits YYMMDD followed by "_", the digits being a day of the
\* calendar of the year 2000+YY, gives the date 20YY-MM-DD and the
\* identifier prefix 20YYMMDD; any other file name makes the file fail with
\* a diagnostic artifact of one exception bullet and no structured output.
C13_DateFromFilename ==
    (DateStepDone /\ fatal_errors = <<>>) =>
        IF DatedName(input_name) THEN DateDerived(input_name) ELSE DateFailure

\* a transformed file whose headers carry the 29th of February 2000
C13_Witness ==
    /\ Succeeded
    /\ input_name = LeapName
    /\ HeadersOf(ok_file) # {}
    /\ out_date = <<"2", "0", "0", "0", "-", "0", "2", "-", "2", "9">>

\* C13 as stated: for a document without violations, a file name that
\* begins with six digits gives the date 20YY-MM-DD and the identifier
\* prefix 20YYMMDD; a file name that does not makes the file fail with a
\* diagnostic artifact of one exception bullet and no structured output.
C13_AsStated ==
    (DateStepDone /\ fatal_errors = <<>>) =>
        IF SixDigits(input_name) THEN DateDerived(input_name) ELSE DateFailure

----------------------------------------------------------------------------
(* C14 *)

\* the line holds an opening bracket with a closing bracket after it
HasPair(line) ==
    \E a, b \in 1..Len(line) : a < b /\ line[a] = "[[" /\ line[b] = "]]"

\* the text between the first opening bracket of the line that a closing
\* bracket follows and the first closing bracket after it
InsidePair(line) ==
    LET a == Least({i \in 1..Len(line) :
                      line[i] = "[[" /\ \E j \in (i + 1)..Len(line) : line[j] = "]]"})
        b == Least({j \in (a + 1)..Len(line) : line[j] = "]]"})
    IN  SubSeq(line, a + 1, b - 1)

\* the question segment of the primary child block of a parent block: the
\* positions after its first CHILD line and before the divider of that block
PrimaryQuestion(pb) ==
    LET first == Least(pb.kids)
    IN  {i \in (first + 1)..(Least({d \in SplitPos : d > first}) - 1) : TRUE}

LabelLines(pb) == {i \in PrimaryQuestion(pb) : HasPair(file_content[i])}

ExpectedLabel(pb) ==
    IF LabelLines(pb) = {} THEN <<>>
    ELSE InsidePair(file_content[Least(LabelLines(pb))])

\* C14: the department line of the k-th header of a structured output holds
\* the text inside the first bracket pair of the question segment of the
\* primary child block of the k-th parent block, whatever brackets the
\* answer, the follow-up blocks and the lines before the first CHILD line
\* hold, and nothing when that segment has no pair; the file succeeds then.
C14_DepartmentLabel ==
    /\ Succeeded =>
           \A pb \in ParentBlocks :
               ok_file[Nth(HeadersOf(ok_file), pb.p) + 3]
                   = <<"- dept: ">> \o ExpectedLabel(pb)
    /\ (Returned /\ readable /\ \E pb \in ParentBlocks : LabelLines(pb) = {})
           => Succeeded

\* a transformed file with a block without label in its primary question,
\* although a line before its first CHILD line, its answer or its follow-up
\* block holds one, and a block with a label on the second line of the question
C14_Witness ==
    /\ Succeeded
    /\ \E pb \in ParentBlocks :
           /\ LabelLines(pb) = {}
           /\ \E i \in (pb.pos + 1)..(pb.end - 1) : HasPair(file_content[i])
           /\ ok_file[Nth(HeadersOf(ok_file), pb.p) + 3] = <<"- dept: ">>
    /\ \E pb \in ParentBlocks :
           /\ LabelLines(pb) # {}
           /\ Least(LabelLines(pb)) > Least(pb.kids) + 1
           /\ ok_file[Nth(HeadersOf(ok_file), pb.p) + 3] = <<"- dept: ", "x">>

----------------------------------------------------------------------------
(* C15 *)

\* the names of the listing, in list order
ListedNames == [k \in 1..Len(all_files) |-> all_files[k].name]

\* the steps process_single_file and the loop body still take for a file
\* with n PARENT lines, by the position in the function
StepsLeftInFile(n) ==
    CASE pc = "idle" -> 0
      [] pc = "start" -> 3 + n
      [] pc = "validated" -> 2 + n
      [] pc = "loop" -> 1 + (n - p_idx)
      [] pc = "done" -> 1

RECURSIVE StepsForFilesFrom(_)
StepsForFilesFrom(k) ==
    IF k > Len(all_files) THEN 0
    ELSE 4 + ParentLinesOf(all_files[k].content) + StepsForFilesFrom(k + 1)

\* the steps main still takes
StepsLeft ==
    (CASE m_pc = "start" -> 2 [] m_pc = "loop" -> 1 [] m_pc = "returned" -> 0)
    + StepsForFilesFrom(file_idx + 1)
    + StepsLeftInFile(ParentLinesOf(file_content))

\* the files handed to process_single_file, and the files the loop has
\* finished with, are the first files of the listing, each once, in order;
\* main returns only when it has finished with the last file
InListOrder ==
    /\ Len(processed) <= Len(all_files)
    /\ processed = SubSeq(ListedNames, 1, Len(processed))
    /\ Len(outcomes) <= Len(processed)
    /\ \A k \in 1..Len(outcomes) : outcomes[k].name = ListedNames[k]
    /\ m_pc = "returned" => (processed = ListedNames /\ Len(outcomes) = Len(all_files))

\* C15: the files passed to process_single_file are at every moment the
\* first files of the listing, each once and in list order, whatever the
\* outcome of the files before; main returns only after the last file; and
\* every step of main and of process_single_file brings the return nearer
\* (the loop ends).
C15_EveryFileOnce ==
    /\ []InListOrder
    /\ [][StepsLeft' < StepsLeft /\ StepsLeft' >= 0]_vars

\* a batch of three files: the first fails in validation, the second with an
\* exception, and the third is transformed
C15_Witness ==
    /\ m_pc = "returned"
    /\ Len(outcomes) = 3
    /\ outcomes[1].name = F_INVALID.name /\ ~outcomes[1].success
    /\ outcomes[2].name = F_NODATE.name /\ ~outcomes[2].success
    /\ outcomes[3].name = F_MANY.name /\ outcomes[3].success
    /\ processed = ListedNames

----------------------------------------------------------------------------
(* C16 *)

\* some file of the batch failed
SomeFileFailed == \E k \in 1..Len(outcomes) : ~outcomes[k].success

\* some transformed file could not be moved to the done directory
SomeMoveFailed ==
    \E k \in 1..Len(outcomes) : outcomes[k].success /\ outcomes[k].name \notin moved

\* C16: main returns EXIT_ERROR exactly when no input file was found, and
\* no file is processed then; otherwise EXIT_WARNING exactly when a file
\* failed or a move to the done directory failed; otherwise EXIT_OK.
C16_ExitCodes ==
    m_pc = "returned" =>
        /\ exit_code \in {EXIT_OK, EXIT_ERROR, EXIT_WARNING}
        /\ exit_code = EXIT_ERROR <=> all_files = <<>>
        /\ all_files = <<>> => processed = <<>>
        /\ exit_code = EXIT_WARNING <=>
               (all_files # <<>> /\ (SomeFileFailed \/ SomeMoveFailed))
        /\ exit_code = EXIT_OK <=>
               (all_files # <<>> /\ ~SomeFileFailed /\ ~SomeMoveFailed)

\* a batch whose files were all transformed, one of them not moved
C16_Witness ==
    /\ m_pc = "returned"
    /\ exit_code = EXIT_WARNING
    /\ Len(outcomes) >= 2
    /\ ~SomeFileFailed
    /\ SomeMoveFailed
    /\ moved # {}

----------------------------------------------------------------------------
(***************************************************************************)
(* src/src/word/word_to_text.py: extraction of the marked sections of a    *)
(* Word document.  A text is a sequence of tokens as above, LINE_BREAK is  *)
(* the newline character.  A paragraph is its text and the text of its     *)
(* text boxes; a table is a sequence of rows, a row a sequence of cells, a *)
(* cell its text (the texts of the cell's paragraphs joined by LINE_BREAK, *)
(* which is both cell.text and what print_table joins).  Standard output   *)
(* is the sequence of the lines written so far.                            *)
(***************************************************************************)

MARKER_SKIP == "[SKIP]"

LINE_BREAK == "<LF>"

\* the value None of a marker type
NoMarker == "None"

check_marker_type(text) ==
    IF Contains(text, MARKER_PARENT) THEN MARKER_PARENT
    ELSE IF Contains(text, MARKER_CHILD) THEN MARKER_CHILD
    ELSE IF Contains(text, MARKER_SKIP) THEN MARKER_SKIP
    ELSE NoMarker

get_combined_marker(text, textbox_text) ==
    IF text # <<>> /\ check_marker_type(text) # NoMarker
    THEN check_marker_type(text)
    ELSE IF textbox_text # <<>> /\ check_marker_type(textbox_text) # NoMarker
         THEN check_marker_type(textbox_text)
         ELSE NoMarker

get_table_marker(table) ==
    LET markers_found ==
            UNION {{check_marker_type(table[r][c]) : c \in 1..Len(table[r])}
                   : r \in 1..Len(table)} \ {NoMarker}
    IN  IF MARKER_PARENT \in markers_found THEN MARKER_PARENT
        ELSE IF MARKER_SKIP \in markers_found THEN MARKER_SKIP
        ELSE IF MARKER_CHILD \in markers_found THEN MARKER_CHILD
        ELSE NoMarker

\* variant: a CHILD marker opens the output like a PARENT marker
process_marker_child_starts(st, marker_type) ==
    IF marker_type = MARKER_PARENT
    THEN [in_parent |-> TRUE, in_skip |-> FALSE,
          found_parent_count |-> st.found_parent_count + 1]
    ELSE IF marker_type = MARKER_CHILD
         THEN [st EXCEPT !.in_parent = TRUE, !.in_skip = FALSE]
         ELSE IF marker_type = MARKER_SKIP
              THEN [st EXCEPT !.in_skip = TRUE]
              ELSE st

\* variant: a SKIP marker closes the parent section
process_marker_skip_closes(st, marker_type) ==
    IF marker_type = MARKER_PARENT
    THEN [in_parent |-> TRUE, in_skip |-> FALSE,
          found_parent_count |-> st.found_parent_count + 1]
    ELSE IF marker_type = MARKER_CHILD
         THEN [st EXCEPT !.in_skip = FALSE]
         ELSE IF marker_type = MARKER_SKIP
              THEN [st EXCEPT !.in_skip = TRUE, !.in_parent = FALSE]
              ELSE st

\* ExtractionState.process_marker, as the new value of the state
process_marker(st, marker_type) ==
    IF marker_type = MARKER_PARENT
    THEN [in_parent |-> TRUE, in_skip |-> FALSE,
          found_parent_count |-> st.found_parent_count + 1]
    ELSE IF marker_type = MARKER_CHILD
         THEN [st EXCEPT !.in_skip = FALSE]
         ELSE IF marker_type = MARKER_SKIP
              THEN [st EXCEPT !.in_skip = TRUE]
              ELSE st

\* print(text): the lines that arrive on standard output
RECURSIVE print(_)
print(text) ==
    IF ~Contains(text, LINE_BREAK) THEN <<text>>
    ELSE LET i == CHOOSE k \in 1..Len(text) :
                      /\ text[k] = LINE_BREAK
                      /\ \A j \in 1..(k - 1) : text[j] # LINE_BREAK
         IN  <<SubSeq(text, 1, i - 1)>> \o print(SubSeq(text, i + 1, Len(text)))

\* " | ".join(row_data)
RECURSIVE JoinRow(_)
JoinRow(row_data) ==
    IF row_data = <<>> THEN <<>>
    ELSE IF Len(row_data) = 1 THEN Head(row_data)
    ELSE Head(row_data) \o <<" | ">> \o JoinRow(Tail(row_data))

RECURSIVE print_table(_)
print_table(table) ==
    IF table = <<>> THEN <<>>
    ELSE print(JoinRow(Head(table))) \o print_table(Tail(table))

Paragraph(text, textbox_text) ==
    [kind |-> "CT_P", text |-> text, textbox_text |-> textbox_text, rows |-> <<>>]

TableOf(rows) ==
    [kind |-> "CT_Tbl", text |-> <<>>, textbox_text |-> <<>>, rows |-> rows]

Paragraphs ==
    { Paragraph(<<MARKER_PARENT>>, <<>>),
      Paragraph(<<MARKER_CHILD>>, <<>>),
      Paragraph(<<MARKER_SKIP>>, <<>>),
      Paragraph(<<>>, <<>>),
      Paragraph(<<"x">>, <<>>),
      Paragraph(<<>>, <<"x", LINE_BREAK, "x">>),
      Paragraph(<<"x">>, <<MARKER_CHILD>>),
      Paragraph(<<MARKER_SKIP>>, <<MARKER_CHILD>>) }

Tables ==
    { TableOf(<< <<<<"x">>, <<"x">>>> >>),
      TableOf(<< <<<<>>>> >>),
      TableOf(<< <<<<MARKER_PARENT>>, <<"x">>>> >>),
      TableOf(<< <<<<MARKER_CHILD>>, <<"x">>>> >>),
      TableOf(<< <<<<MARKER_SKIP>>, <<"x">>>> >>),
      TableOf(<< <<<<MARKER_SKIP>>>>, <<<<MARKER_CHILD>>>> >>),
      TableOf(<< <<<<MARKER_CHILD>>, <<MARKER_PARENT>>>> >>),
      TableOf(<< <<<<MARKER_CHILD, "x", MARKER_SKIP>>>> >>) }

\* the elements whose processing raises
Broken == {Paragraph(<<"x">>, <<>>), TableOf(<< <<<<"x">>>> >>)}

MaxElements == 4

InitExtract ==
    /\ x_pc = "loop"
    /\ elements = <<>>
    /\ in_parent = FALSE
    /\ in_skip = FALSE
    /\ found_parent_count = 0
    /\ last_was_empty = FALSE
    /\ is_first_output = TRUE
    /\ marker_just_output = FALSE
    /\ printed = <<>>
    /\ x_had_warning = FALSE
    /\ trace = <<>>
    /\ parent_count = NoneIdx
    /\ input_name = <<>>
    /\ readable = FALSE
    /\ file_content = <<>>
    /\ pc = "idle"
    /\ NoCall
    /\ NoBatch
    /\ NoOther

\* the bookkeeping of one loop iteration
Iteration(e, marker, st, raised, inserted, out) ==
    /\ elements' = Append(elements, e)
    /\ trace' = Append(trace, [marker |-> marker, raised |-> raised,
                               in_parent |-> st.in_parent, in_skip |-> st.in_skip,
                               inserted |-> inserted,
                               from |-> Len(printed) + (IF inserted THEN 1 ELSE 0),
                               to |-> Len(printed) + Len(out)])
    /\ printed' = printed \o out
    /\ in_parent' = st.in_parent
    /\ in_skip' = st.in_skip
    /\ found_parent_count' = st.found_parent_count

ExtractionState ==
    [in_parent |-> in_parent, in_skip |-> in_skip,
     found_parent_count |-> found_parent_count]

\* one iteration of the loop on a paragraph
ParagraphStep(e) ==
    LET text == e.text
        textbox_text == e.textbox_text
        marker_type == get_combined_marker(text, textbox_text)
        st == IF marker_type # NoMarker
              THEN process_marker(ExtractionState, marker_type)
              ELSE ExtractionState
        visible == st.in_parent /\ ~st.in_skip
        is_marker == marker_type \in {MARKER_PARENT, MARKER_CHILD}
        inserted == visible /\ is_marker /\ ~is_first_output /\ ~last_was_empty
        was_empty == inserted \/ last_was_empty
        is_empty == text = <<>> /\ textbox_text = <<>>
        text_out == /\ visible
                    /\ ~(is_empty /\ (was_empty \/ marker_just_output))
                    /\ (text # <<>> \/ textbox_text = <<>>)
        box_out == visible /\ textbox_text # <<>>
    IN  /\ x_pc = "loop"
        /\ Len(elements) < MaxElements
        /\ e.kind = "CT_P"
        /\ Iteration(e, marker_type, st, FALSE, inserted,
                     (IF inserted THEN <<<<>>>> ELSE <<>>)
                        \o (IF text_out THEN print(text) ELSE <<>>)
                        \o (IF box_out THEN print(textbox_text) ELSE <<>>))
        /\ last_was_empty' = IF box_out THEN FALSE
                             ELSE IF text_out THEN (~is_marker /\ text = <<>>)
                             ELSE was_empty
        /\ is_first_output' = IF text_out \/ box_out THEN FALSE ELSE is_first_output
        /\ marker_just_output' = IF box_out THEN FALSE
                                 ELSE IF text_out THEN is_marker
                                 ELSE marker_just_output
        /\ UNCHANGED <<x_pc, x_had_warning, parent_count>>
        /\ UNCHANGED <<engine_vars, main_vars, other_vars>>

\* one iteration of the loop on a table
TableStep(e) ==
    LET table == e.rows
        table_marker == get_table_marker(table)
        st == IF table_marker # NoMarker
              THEN process_marker(ExtractionState, table_marker)
              ELSE ExtractionState
        visible == st.in_parent /\ ~st.in_skip
        is_marker == table_marker \in {MARKER_PARENT, MARKER_CHILD}
        inserted == visible /\ is_marker /\ ~is_first_output /\ ~last_was_empty
    IN  /\ x_pc = "loop"
        /\ Len(elements) < MaxElements
        /\ e.kind = "CT_Tbl"
        /\ Iteration(e, table_marker, st, FALSE, inserted,
                     (IF inserted THEN <<<<>>>> ELSE <<>>)
                        \o (IF visible THEN print_table(table) ELSE <<>>))
        /\ last_was_empty' = IF visible THEN FALSE ELSE last_was_empty
        /\ is_first_output' = IF visible THEN FALSE ELSE is_first_output
        /\ marker_just_output' = IF visible THEN is_marker ELSE marker_just_output
        /\ UNCHANGED <<x_pc, x_had_warning, parent_count>>
        /\ UNCHANGED <<engine_vars, main_vars, other_vars>>

\* an iteration whose element cannot be read (Paragraph, paragraph.text or
\* Table raises): the except clause notifies the warning and the loop goes on
ElementFails(e) ==
    /\ x_pc = "loop"
    /\ Len(elements) < MaxElements
    /\ Iteration(e, NoMarker, ExtractionState, TRUE, FALSE, <<>>)
    /\ x_had_warning' = TRUE
    /\ UNCHANGED <<x_pc, last_was_empty, is_first_output, marker_just_output, parent_count>>
    /\ UNCHANGED <<engine_vars, main_vars, other_vars>>

\* the body has no further element
ExtractReturn ==
    /\ x_pc = "loop"
    /\ x_pc' = "done"
    /\ parent_count' = found_parent_count
    /\ UNCHANGED <<elements, in_parent, in_skip, found_parent_count, last_was_empty,
                   is_first_output, marker_just_output, printed, x_had_warning, trace>>
    /\ UNCHANGED <<engine_vars, main_vars, other_vars>>

NextExtract ==
    \/ \E e \in Paragraphs : ParagraphStep(e)
    \/ \E e \in Tables : TableStep(e)
    \/ \E e \in Broken : ElementFails(e)
    \/ ExtractReturn

SpecExtract == InitExtract /\ [][NextExtract]_vars

----------------------------------------------------------------------------
(* Claims on the extraction of the marked sections *)

\* the number of lines on standard output before iteration k
PrintedBefore(k) == IF k = 1 THEN 0 ELSE trace[k - 1].to

\* iteration k has written at least one line
Wrote(k) == trace[k].to > PrintedBefore(k)

\* a PARENT marker has been met at or before iteration k
SeenParent(k) == \E j \in 1..k : trace[j].marker = MARKER_PARENT

\* the marker met last at or before iteration k
LastMarker(k) ==
    LET marked == {j \in 1..k : trace[j].marker # NoMarker}
    IN  IF marked = {} THEN NoMarker
        ELSE trace[CHOOSE j \in marked : \A i \in marked : i <= j].marker

\* C17: an element is written only if in_parent is true and in_skip is
\* false once its own marker has been applied: nothing is written before
\* the first PARENT marker, nothing from a SKIP marker (its element
\* included) until the next CHILD or PARENT marker, and the element that
\* carries that CHILD or PARENT marker is written
C17_OutputOnlyInsideParent ==
    \A k \in 1..Len(trace) :
        /\ Wrote(k) => /\ trace[k].in_parent /\ ~trace[k].in_skip
                       /\ SeenParent(k)
                       /\ LastMarker(k) # MARKER_SKIP
        /\ (/\ ~trace[k].raised
            /\ SeenParent(k)
            /\ trace[k].marker \in {MARKER_PARENT, MARKER_CHILD}) => Wrote(k)

\* a SKIP marker before any PARENT, the first PARENT, a SKIP and the CHILD
\* that resumes the output
C17_Witness ==
    /\ Len(trace) = 4
    /\ trace[1].marker = MARKER_SKIP /\ ~Wrote(1)
    /\ trace[2].marker = MARKER_PARENT /\ Wrote(2)
    /\ trace[3].marker = MARKER_SKIP /\ ~Wrote(3)
    /\ trace[4].marker = MARKER_CHILD /\ Wrote(4)

\* some cell of the table contains the token
TokenInTable(table, token) ==
    \E r \in 1..Len(table) : \E c \in 1..Len(table[r]) : Contains(table[r][c], token)

\* the marker of a table by the priority PARENT > SKIP > CHILD over the
\* tokens of all its cells
PriorityMarker(table) ==
    IF TokenInTable(table, MARKER_PARENT) THEN MARKER_PARENT
    ELSE IF TokenInTable(table, MARKER_SKIP) THEN MARKER_SKIP
    ELSE IF TokenInTable(table, MARKER_CHILD) THEN MARKER_CHILD
    ELSE NoMarker

\* C18: get_table_marker returns PARENT if any cell contains the PARENT
\* token, otherwise SKIP if any cell contains the SKIP token, otherwise
\* CHILD if any cell contains the CHILD token, otherwise None, however the
\* tokens are spread over the cells
C18_TableMarkerPriority ==
    \A k \in 1..Len(trace) :
        (elements[k].kind = "CT_Tbl" /\ ~trace[k].raised)
            => trace[k].marker = PriorityMarker(elements[k].rows)

\* C19: the text written by extract_marked_sections never contains two
\* consecutive empty lines
C19_NoTwoEmptyLines ==
    \A i \in 1..(Len(printed) - 1) : ~(printed[i] = <<>> /\ printed[i + 1] = <<>>)

\* the first iteration that has written a line, 0 if there is none
FirstOutput ==
    LET writers == {k \in 1..Len(trace) : Wrote(k)}
    IN  IF writers = {} THEN 0
        ELSE CHOOSE k \in writers : \A j \in writers : k <= j

\* exactly one empty line stands immediately before the first line that
\* the element of iteration k has written
OneEmptyLineBefore(k) ==
    LET n == trace[k].from
    IN  /\ n >= 1
        /\ printed[n] = <<>>
        /\ n >= 2 => printed[n - 1] # <<>>

\* C20: every written element that carries a CHILD marker, and every
\* written element that carries a PARENT marker other than the first
\* written element, is immediately preceded by exactly one empty line; the
\* first written element carries the first PARENT and nothing precedes it
C20_BlankLineBeforeMarkers ==
    \A k \in 1..Len(trace) :
        Wrote(k) =>
            /\ (k = FirstOutput)
                   => trace[k].from = 0 /\ trace[k].marker = MARKER_PARENT
            /\ (k # FirstOutput /\ trace[k].marker \in {MARKER_PARENT, MARKER_CHILD})
                   => OneEmptyLineBefore(k)

----------------------------------------------------------------------------
(***************************************************************************)
(* src/run_all.py: the batch script that runs the stage scripts one after  *)
(* the other.  A stage is a child process; its returncode is an input.     *)
(***************************************************************************)

SCRIPTS ==
    <<"word_to_text.py", "move_output_to_structured.py", "text_to_structured.py",
      "move_structured_to_department.py", "structured_to_department.py">>

\* the returncodes a stage can give: exit codes, and a negative value for a
\* script ended by a signal
ReturnCodes == {EXIT_OK, EXIT_ERROR, EXIT_WARNING, 3, 255, 0 - 9}

\* the exit status the operating system keeps of sys.exit(code)
ExitStatus(code) == code % 256

\* process_single_file is not running
NoEngine ==
    /\ input_name = <<>>
    /\ readable = FALSE
    /\ file_content = <<>>
    /\ pc = "idle"
    /\ NoCall

InitRunAll ==
    /\ r_pc = "loop"
    /\ script_idx = 0
    /\ r_had_warning = FALSE
    /\ started = <<>>
    /\ returncodes = <<>>
    /\ r_exit = NoneIdx
    /\ NoEngine
    /\ NoBatch
    /\ NoExtraction
    /\ NoDepartment
    /\ NoMove

\* variant: a stage that fails is treated like a stage that warns
RunScript_continues_on_error(code) ==
    /\ r_pc = "loop"
    /\ script_idx < Len(SCRIPTS)
    /\ started' = Append(started, SCRIPTS[script_idx + 1])
    /\ returncodes' = Append(returncodes, code)
    /\ script_idx' = script_idx + 1
    /\ r_had_warning' = (r_had_warning \/ code # EXIT_OK)
    /\ UNCHANGED <<r_pc, r_exit>>
    /\ UNCHANGED <<engine_vars, main_vars, extract_vars, dept_vars, move_vars>>

\* one iteration of the loop of main: run_script(script) and the test of
\* its return value; run_script ends the process on any code but 0 and 2
RunScript(code) ==
    /\ r_pc = "loop"
    /\ script_idx < Len(SCRIPTS)
    /\ started' = Append(started, SCRIPTS[script_idx + 1])
    /\ returncodes' = Append(returncodes, code)
    /\ IF code = EXIT_OK
       THEN /\ script_idx' = script_idx + 1
            /\ UNCHANGED <<r_pc, r_had_warning, r_exit>>
       ELSE IF code = EXIT_WARNING
            THEN /\ script_idx' = script_idx + 1
                 /\ r_had_warning' = TRUE
                 /\ UNCHANGED <<r_pc, r_exit>>
            ELSE /\ r_pc' = "exited"
                 /\ r_exit' = ExitStatus(code)
                 /\ UNCHANGED <<script_idx, r_had_warning>>
    /\ UNCHANGED <<engine_vars, main_vars, extract_vars, dept_vars, move_vars>>

\* the end of main: sys.exit(main()), where main returns EXIT_WARNING or None
RunAllReturn ==
    /\ r_pc = "loop"
    /\ script_idx = Len(SCRIPTS)
    /\ r_pc' = "exited"
    /\ r_exit' = IF r_had_warning THEN EXIT_WARNING ELSE 0
    /\ UNCHANGED <<script_idx, r_had_warning, started, returncodes>>
    /\ UNCHANGED <<engine_vars, main_vars, extract_vars, dept_vars, move_vars>>

NextRunAll ==
    \/ \E code \in ReturnCodes : RunScript(code)
    \/ RunAllReturn

SpecRunAll == InitRunAll /\ [][NextRunAll]_vars

\* the stage exited with a code that lets the pipeline go on
Passed(code) == code \in {EXIT_OK, EXIT_WARNING}

\* C21: the stages run in the order of SCRIPTS; a stage is started only if
\* every earlier stage exited with 0 or 2; the first stage that exits with
\* another code ends the pipeline at once with that code and no later stage
\* runs; when all stages ran the pipeline exits with 2 if some stage exited
\* with 2 and with 0 otherwise
C21_PipelineOrder ==
    /\ Len(started) <= Len(SCRIPTS)
    /\ Len(returncodes) = Len(started)
    /\ \A i \in 1..Len(started) :
        /\ started[i] = SCRIPTS[i]
        /\ \A j \in 1..(i - 1) : Passed(returncodes[j])
        /\ ~Passed(returncodes[i]) =>
              /\ r_pc = "exited"
              /\ Len(started) = i
              /\ returncodes[i] \in 0..255 => r_exit = returncodes[i]
    /\ (r_pc = "exited" /\ \A i \in 1..Len(started) : Passed(returncodes[i])) =>
          /\ Len(started) = Len(SCRIPTS)
          /\ r_exit = IF \E i \in 1..Len(started) : returncodes[i] = EXIT_WARNING
                      THEN EXIT_WARNING ELSE EXIT_OK

\* a warning in the first stage, then the third stage fails with code 3
C21_Witness ==
    /\ r_pc = "exited"
    /\ returncodes = <<EXIT_WARNING, EXIT_OK, 3>>
    /\ started = <<"word_to_text.py", "move_output_to_structured.py", "text_to_structured.py">>
    /\ r_exit = 3

----------------------------------------------------------------------------
(***************************************************************************)
(* src/src/word/structured_to_department.py: the split of the structured   *)
(* files by department.  A directory is a set of files, a file a record    *)
(* of its name and its lines; writing a file replaces the file of the      *)
(* same name.                                                              *)
(***************************************************************************)

\* open(path, 'w') followed by write
WriteFile(dir, name, content) ==
    {f \in dir : f.name # name} \cup {[name |-> name, lines |-> content]}

NO_DEPT == "(no department)"

RECURSIVE SplitSectionsFrom(_, _, _)
SplitSectionsFrom(ls, current, sections) ==
    LET closed == IF current # <<>> /\ \E i \in 1..Len(current) : Strip(current[i]) # <<>>
                  THEN Append(sections, current)
                  ELSE sections
    IN  IF ls = <<>> THEN closed
        ELSE IF Strip(Head(ls)) = <<MARKER_PARENT>>
             THEN SplitSectionsFrom(Tail(ls), <<Head(ls)>>, closed)
             ELSE SplitSectionsFrom(Tail(ls), Append(current, Head(ls)), sections)

split_sections(ls) == SplitSectionsFrom(ls, <<>>, <<>>)

\* the loops that pop the blank lines at both ends of a section
TrimSection(sec) == trim_leading_blank(trim_trailing_blank(sec))

\* the line matches \s*-\s*<label>\s*(...)
LabelLine(line, label) == StartsWith(LStrip(line), label)

LabelValue(line) == Strip(Tail(LStrip(line)))

\* the first line of the file that matches the date pattern, stripped; the
\* empty text if no line matches
FileDate(ls) ==
    LET hits == {i \in 1..Len(ls) : LabelLine(ls[i], "- date: ") /\ Len(LStrip(ls[i])) >= 1}
    IN  IF hits = {} THEN <<>>
        ELSE LabelValue(ls[CHOOSE i \in hits : \A j \in hits : i <= j])

\* None is the empty text here: both are replaced by NO_DEPT
extract_department(section_lines) ==
    LET hits == {i \in 1..Len(section_lines) : LabelLine(section_lines[i], "- dept: ")}
    IN  IF hits = {} THEN <<>>
        ELSE LabelValue(section_lines[CHOOSE i \in hits : \A j \in hits : i <= j])

sanitize_filename(str) ==
    Strip([i \in 1..Len(str) |->
              IF str[i] \in {"\\", "/", ":", "*", "?", "\"", "<", ">", "|"}
              THEN "_" ELSE str[i]])

\* date_for_filename: a date written with the year, month and day signs
\* gives the year and the zero-filled month and day; any other date gives
\* its digits, or itself if it has none
DateForFilename(file_date) ==
    LET fd == LStrip(file_date)
        digits == SelectSeq(file_date, IsDigit)
        AllDigits(a, b) == \A i \in a..b : IsDigit(fd[i])
        shapes == {w \in {1, 2} \X {1, 2} :
                      /\ Len(fd) >= 7 + w[1] + w[2]
                      /\ AllDigits(1, 4) /\ fd[5] = "(year)"
                      /\ AllDigits(6, 5 + w[1]) /\ fd[6 + w[1]] = "(month)"
                      /\ AllDigits(7 + w[1], 6 + w[1] + w[2])
                      /\ fd[7 + w[1] + w[2]] = "(day)"}
    IN  IF shapes # {}
        THEN LET w == CHOOSE v \in shapes : \A u \in shapes : u[1] <= v[1] /\ (u[1] = v[1] => u[2] <= v[2])
             IN  SubSeq(fd, 1, 4) \o ZeroPad(SubSeq(fd, 6, 5 + w[1]), 2)
                     \o ZeroPad(SubSeq(fd, 7 + w[1], 6 + w[1] + w[2]), 2)
        ELSE IF digits = <<>> THEN file_date ELSE digits

\* the departments of the sections in the order of their first section
RECURSIVE DeptOrder(_, _)
DeptOrder(depts, seen) ==
    IF depts = <<>> THEN seen
    ELSE IF \E i \in 1..Len(seen) : seen[i] = Head(depts)
         THEN DeptOrder(Tail(depts), seen)
         ELSE DeptOrder(Tail(depts), Append(seen, Head(depts)))

\* the sections joined with one empty line between them
RECURSIVE JoinSections(_)
JoinSections(sec_list) ==
    IF sec_list = <<>> THEN <<>>
    ELSE IF Len(sec_list) = 1 THEN Head(sec_list)
    ELSE Head(sec_list) \o <<EmptyLine>> \o JoinSections(Tail(sec_list))

\* LINE_BREAK.join(output_lines).rstrip(LINE_BREAK) + LINE_BREAK, as lines
WrittenLines(out) ==
    IF DropTrailingEmpty(out) = <<>> THEN <<EmptyLine>>
    ELSE DropTrailingEmpty(out)

DeptFileName(base_filename, date_for_filename, dept) ==
    date_for_filename \o <<"_">> \o sanitize_filename(dept) \o <<".txt">>

\* the loop over dept_dict, in insertion order
RECURSIVE WriteDepartments(_, _, _, _, _, _)
WriteDepartments(dir, order, sections, depts, base_filename, date_for_filename) ==
    IF order = <<>> THEN dir
    ELSE LET dept == Head(order)
             idxs == {i \in 1..Len(sections) : depts[i] = dept}
             sec_list == SelectSeq([i \in 1..Len(sections) |->
                                       IF i \in idxs THEN sections[i] ELSE <<>>],
                                   LAMBDA x : x # <<>>)
             skip == \/ dept = <<NO_DEPT>> /\ \A i \in idxs : Len(sections[i]) = 0
                     \/ idxs = {}
             next == IF skip THEN dir
                     ELSE WriteFile(dir, DeptFileName(base_filename, date_for_filename, dept),
                                    WrittenLines(<<EmptyLine, EmptyLine>> \o JoinSections(sec_list)))
         IN  WriteDepartments(next, Tail(order), sections, depts, base_filename,
                              date_for_filename)

\* process_single_file of structured_to_department on the output directory
\* dir: the return value and the directory afterwards.  No section raises
\* in the classification loop, so dept_error_dict stays empty.
DeptProcessSingleFile(file, dir) ==
    LET ls == file.lines
        sections == [i \in 1..Len(split_sections(ls)) |-> TrimSection(split_sections(ls)[i])]
        file_date == FileDate(ls)
        depts == [i \in 1..Len(sections) |->
                     IF extract_department(sections[i]) = <<>> THEN <<NO_DEPT>>
                     ELSE extract_department(sections[i])]
    IN  IF file_date = <<>>
        THEN [success |-> FALSE, parent_count |-> 0,
              err_msg |-> <<"no date found in the file">>,
              dir |-> WriteFile(dir,
                         sanitize_filename(file.name \o <<"_", "<timestamp>", "_ERROR.txt">>),
                         <<EmptyLine, EmptyLine,
                           <<"ERROR: a runtime exception occurred.">>,
                           <<"- ", "no date found in the file">>>>)]
        ELSE [success |-> TRUE, parent_count |-> Len(sections), err_msg |-> <<>>,
              dir |-> WriteDepartments(dir, DeptOrder(depts, <<>>), sections, depts,
                                       file.name, DateForFilename(file_date))]

\* a structured file as text_to_structured writes it for the input stem:
\* one section per department of the list, the text of the file's own
StructuredFile(stem, dept_list, text) ==
    [name |-> stem,
     lines |-> Flatten([k \in 1..Len(dept_list) |->
                  << <<MARKER_PARENT>>,
                     <<"# QA-ID: ">> \o date_from_filename(stem).id_date \o <<"-">>
                         \o ZeroPad(DecStr(k), 3),
                     <<"- date: ">> \o date_from_filename(stem).out_date,
                     <<"- dept: ">> \o dept_list[k],
                     <<"[Q] ", text>>,
                     EmptyLine >>])]

Stems ==
    { <<"2", "4", "0", "1", "1", "5", "_", "a">>,
      <<"2", "4", "0", "1", "1", "5", "_", "b">>,
      <<"2", "4", "0", "1", "1", "6", "_", "c">> }

DeptNames == {<<"x">>, <<"x", "/", "x">>, <<>>}

DeptLists == {<<d>> : d \in DeptNames} \cup {<<d, e>> : d \in DeptNames, e \in DeptNames}

\* a diagnostic artifact of text_to_structured: it has no date line
F_ARTIFACT ==
    [name |-> <<"2", "4", "0", "1", "1", "5", "_", "e", "_ERROR">>,
     lines |-> <<EmptyLine, EmptyLine, <<"ERROR: the structure of the input file is invalid.">>>>]

\* a file whose date is written with the year, month and day signs
F_SIGNS ==
    [name |-> <<"2", "4", "0", "1", "0", "5", "_", "d">>,
     lines |-> << <<MARKER_PARENT>>,
                  <<"- date: ", "2", "0", "2", "4", "(year)", "1", "(month)", "5", "(day)">>,
                  <<"- dept: ", "x">>,
                  <<"[Q] ", "d">> >>]

DeptInputs ==
    {StructuredFile(st, dl, st[Len(st)]) : st \in Stems, dl \in DeptLists}
        \cup {F_ARTIFACT, F_SIGNS}

MaxDeptFiles == 2

RECURSIVE DeptListingsOf(_)
DeptListingsOf(n) ==
    IF n = 0 THEN {<<>>}
    ELSE LET shorter == DeptListingsOf(n - 1)
         IN  shorter \cup {Append(l, f) : l \in {x \in shorter : Len(x) = n - 1},
                                          f \in DeptInputs}

\* the files of one directory have different names
DeptListings ==
    {l \in DeptListingsOf(MaxDeptFiles) :
        \A i, j \in 1..Len(l) : l[i].name = l[j].name => i = j}

InitDepartment ==
    /\ d_pc = "start"
    /\ d_files \in DeptListings
    /\ d_idx = 0
    /\ d_success_count = 0
    /\ d_error_count = 0
    /\ d_total_parent = 0
    /\ d_had_file_error = FALSE
    /\ d_results = <<>>
    /\ d_out = {}
    /\ d_done = {}
    /\ d_exit = NoneIdx
    /\ NoEngine
    /\ NoBatch
    /\ NoExtraction
    /\ NoPipeline
    /\ NoMove

\* the glob and the test for an empty list
DeptDiscover ==
    /\ d_pc = "start"
    /\ IF d_files = <<>>
       THEN d_pc' = "returned" /\ d_exit' = EXIT_ERROR
       ELSE d_pc' = "loop" /\ UNCHANGED d_exit
    /\ UNCHANGED <<d_files, d_idx, d_success_count, d_error_count, d_total_parent,
                   d_had_file_error, d_results, d_out, d_done>>
    /\ UNCHANGED <<engine_vars, main_vars, extract_vars, pipeline_vars, move_vars>>

\* one iteration of the loop of main: process_single_file, the counters
\* and, on success, the move of the input file, which can fail
DeptProcessFile ==
    /\ d_pc = "loop"
    /\ d_idx < Len(d_files)
    /\ LET r == DeptProcessSingleFile(d_files[d_idx + 1], d_out)
       IN  /\ d_out' = r.dir
           /\ d_results' = Append(d_results, [success |-> r.success,
                                              parent_count |-> r.parent_count])
           /\ IF r.success
              THEN /\ d_success_count' = d_success_count + 1
                   /\ d_total_parent' = d_total_parent + r.parent_count
                   /\ \E renamed \in BOOLEAN :
                         d_done' = IF renamed THEN d_done \cup {d_files[d_idx + 1].name}
                                   ELSE d_done
                   /\ UNCHANGED <<d_error_count, d_had_file_error>>
              ELSE /\ d_error_count' = d_error_count + 1
                   /\ d_had_file_error' = TRUE
                   /\ UNCHANGED <<d_success_count, d_total_parent, d_done>>
    /\ d_idx' = d_idx + 1
    /\ UNCHANGED <<d_pc, d_files, d_exit>>
    /\ UNCHANGED <<engine_vars, main_vars, extract_vars, pipeline_vars, move_vars>>

\* the end of main; had_warning is set by no path of the model
DeptSummarize ==
    /\ d_pc = "loop"
    /\ d_idx = Len(d_files)
    /\ d_pc' = "returned"
    /\ d_exit' = IF d_had_file_error \/ d_error_count > 0 THEN EXIT_WARNING ELSE EXIT_OK
    /\ UNCHANGED <<d_files, d_idx, d_success_count, d_error_count, d_total_parent,
                   d_had_file_error, d_results, d_out, d_done>>
    /\ UNCHANGED <<engine_vars, main_vars, extract_vars, pipeline_vars, move_vars>>

NextDepartment == DeptDiscover \/ DeptProcessFile \/ DeptSummarize

SpecDepartment == InitDepartment /\ [][NextDepartment]_vars

\* the lines of sec stand together, in order, in the file
SectionInFile(sec, file) ==
    \E at \in 0..(Len(file.lines) - Len(sec)) :
        \A k \in 1..Len(sec) : file.lines[at + k] = sec[k]

\* the sections of an input file, as process_single_file writes them
SectionsOf(file) ==
    {TrimSection(split_sections(file.lines)[i]) : i \in 1..Len(split_sections(file.lines))}

\* C22: a department file written for one input file or department is
\* never overwritten while another input file or department is processed:
\* at the end of the run every section of every successfully processed
\* input file is present in some output file
C22_NoSectionLost ==
    d_pc = "returned" =>
        \A i \in 1..Len(d_results) :
            d_results[i].success =>
                \A sec \in SectionsOf(d_files[i]) :
                    \E f \in d_out : SectionInFile(sec, f)

----------------------------------------------------------------------------
(* Documents with blank lines and tags inside the segments *)

MaxQABlocks == 2

\* question segments: blank lines in front, at the end and inside, a first
\* line that carries the tag already, a tag on a later line, an answer tag,
\* a first line that carries the tag twice
QSegments ==
    { <<L_TEXT>>,
      <<EmptyLine, L_SPACES, L_TEXT>>,
      <<L_TEXT, EmptyLine, L_SPACES>>,
      <<L_TEXT, EmptyLine, EmptyLine, L_TEXT>>,
      <<L_Q_TEXT>>,
      <<L_SPACES, L_Q_TEXT, L_TEXT>>,
      <<L_TEXT, L_Q_TEXT>>,
      <<L_A_TEXT>>,
      <<<<TAG_Q, TAG_Q, "x">>>> }

\* what follows the divider: answers alike, and an answer with a follow-up
ASegments ==
    { <<L_TEXT>>,
      <<EmptyLine, L_TEXT, EmptyLine>>,
      <<L_A_TEXT>>,
      <<L_TEXT, L_A_TEXT>>,
      <<L_TEXT, L_CHILD, L_SPACES, L_TEXT, L_SPLIT, L_SPACES, L_A_TEXT>> }

QABlocks ==
    {<<L_PARENT, L_CHILD>> \o q \o <<L_SPLIT>> \o a : q \in QSegments, a \in ASegments}

RECURSIVE QADocsOf(_)
QADocsOf(n) ==
    IF n = 0 THEN {<<>>}
    ELSE LET shorter == QADocsOf(n - 1)
         IN  shorter \cup {d \o b : d \in shorter, b \in QABlocks}

InitQA ==
    /\ input_name = GoodName
    /\ \/ readable = TRUE /\ file_content \in QADocsOf(MaxQABlocks)
       \/ readable = FALSE /\ file_content = <<>>
    /\ pc = "start"
    /\ NoCall
    /\ NoBatch
    /\ NoExtraction
    /\ NoOther

SpecQA == InitQA /\ [][Next]_vars

----------------------------------------------------------------------------
(* Further claims on the structuring engine *)

\* the build record of the primary child of parent block p
PrimaryBuild(p) ==
    build_checks[CHOOSE k \in 1..Len(build_checks) :
                     build_checks[k].p = p /\ build_checks[k].c = 1]

\* the index in the written file of the header line of parent block p
HeaderAt(p) ==
    CHOOSE i \in HeadersOf(ok_file) :
        Cardinality({j \in HeadersOf(ok_file) : j <= i}) = p

\* a segment as it stands in the written file behind a non-blank line
Collapsed(segment) == NormalizeBody(segment, <<>>, FALSE)

\* the first non-blank line of the segment carries the tag, and no other
\* line starts with it
SingleTag(segment, tag) ==
    /\ next_non_empty_index(segment, 0) # NoneIdx
    /\ StartsWith(At(segment, next_non_empty_index(segment, 0)), tag)
    /\ CountTagged(segment, tag) = 1

\* the content of the primary child of parent block p, cut from the file
PrimaryContentOf(doc, p) ==
    LET parent == split_parent_blocks(doc)[p]
        child == split_child_blocks(doc, parent[1], parent[2])[1]
    IN  Slice(doc, child[1] + 1, child[2])

\* C23: the tagged primary question that follows the parent header is the
\* line sequence of the question segment of the primary child sub-block,
\* with the same single tagged first non-blank line, in the call and in the
\* written file; the builder receives the primary child's content as it
\* stands in the file, whatever the header has tagged
C23_HeaderQuestionReused ==
    /\ \A k \in 1..Len(build_checks) :
          (build_checks[k].c = 1 /\ ~build_checks[k].raised) =>
              /\ build_checks[k].header_q = build_checks[k].question
              /\ SingleTag(build_checks[k].question, TAG_Q)
              /\ build_checks[k].content = PrimaryContentOf(file_content, build_checks[k].p)
    /\ ok_written =>
          \A p \in 1..Cardinality(HeadersOf(ok_file)) :
              LET q == Collapsed(PrimaryBuild(p).header_q)
                  expected == q \o <<EmptyLine, <<MARKER_CHILD>>, <<"## primary QA">>>> \o q
              IN  SubSeq(ok_file, HeaderAt(p) + 4, HeaderAt(p) + 3 + Len(expected)) = expected

\* a written file whose primary question starts behind a blank line and
\* has more than one line of text
C23_Witness ==
    /\ ok_written
    /\ \E k \in 1..Len(build_checks) :
          /\ build_checks[k].c = 1
          /\ next_non_empty_index(build_checks[k].question, 0) > 0
          /\ Len(build_checks[k].question) >= 3
          /\ ~StartsWith(At(build_checks[k].content,
                            next_non_empty_index(build_checks[k].content, 0)), TAG_Q)

\* the tagging step on a segment with a non-blank line
TagStep(segment, tag) == TagLine(segment, next_non_empty_index(segment, 0), tag)

\* the first non-blank line of the segment
FirstLine(segment) == At(segment, next_non_empty_index(segment, 0))

\* the number of tags the line starts with
RECURSIVE LeadingTags(_, _)
LeadingTags(line, tag) ==
    IF StartsWith(line, tag) THEN 1 + LeadingTags(Tail(line), tag) ELSE 0

\* the segments of a child content as the builder cuts them
QuestionPartOf(content) ==
    trim_trailing_blank(Slice(content, 0,
        IndicesOf(content, 0, Len(content), MARKER_QA_SPLIT)[1]))

AnswerPartOf(content) ==
    trim_leading_blank(Slice(content,
        IndicesOf(content, 0, Len(content), MARKER_QA_SPLIT)[1] + 1, Len(content)))

\* tagged is the segment before with the tag on its first non-blank line:
\* unchanged if that line carried the tag, tagged again without change, and
\* with one tag in front of that line unless the input had more
TaggedOnce(before, tagged, tag) ==
    /\ StartsWith(FirstLine(before), tag) => tagged = before
    /\ ~StartsWith(FirstLine(before), tag) =>
          tagged = [before EXCEPT ![next_non_empty_index(before, 0) + 1] = <<tag>> \o @]
    /\ TagStep(tagged, tag) = tagged
    /\ TagStep(TagStep(before, tag), tag) = TagStep(before, tag)
    /\ LeadingTags(FirstLine(before), tag) <= 1 => LeadingTags(FirstLine(tagged), tag) = 1

\* the builder call has tagged both segments
TaggingDone(b) == b.question # <<>> /\ b.answer # <<>>

----------------------------------------------------------------------------
(* Documents with padded parent lines *)

MaxSplitUnits == 4

L_PARENT_PADDED == <<" ", MARKER_PARENT, " ">>

\* parent lines as they stand and with blanks around them, a child block,
\* a parent block, text, text that holds the marker, a blank line
SplitUnits ==
    { <<L_PARENT>>, <<L_PARENT_PADDED>>,
      <<L_CHILD, L_TEXT, L_SPLIT, L_TEXT>>,
      <<L_PARENT_PADDED, L_CHILD, L_TEXT, L_SPLIT, L_TEXT>>,
      <<L_TEXT>>, <<L_TEXT_PARENT>>, <<EmptyLine>> }

RECURSIVE SplitDocsOf(_)
SplitDocsOf(n) ==
    IF n = 0 THEN {<<>>}
    ELSE LET shorter == SplitDocsOf(n - 1)
         IN  shorter \cup {d \o u : d \in shorter, u \in SplitUnits}

InitSplit ==
    /\ input_name = GoodName
    /\ \/ readable = TRUE /\ file_content \in SplitDocsOf(MaxSplitUnits)
       \/ readable = FALSE /\ file_content = <<>>
    /\ pc = "start"
    /\ NoCall
    /\ NoBatch
    /\ NoExtraction
    /\ NoOther

SpecSplit == InitSplit /\ [][Next]_vars

\* the indexes of the lines that equal the PARENT marker after trimming
ParentLines(ls) == {i \in 0..(Len(ls) - 1) : Strip(At(ls, i)) = <<MARKER_PARENT>>}

\* C26: split_parent_blocks returns one range (start, end) per line that
\* equals the PARENT marker after trimming, in document order: every start
\* is a PARENT line, every end is the start of the next range, the last end
\* is the length of the document, no PARENT line lies strictly inside a
\* range, and a document without a PARENT line gives no range
C26_ParentRanges ==
    calls # <<>> =>
        LET blocks == split_parent_blocks(lines)
            n == Len(blocks)
        IN  /\ n = Cardinality(ParentLines(lines))
            /\ {blocks[k][1] : k \in 1..n} = ParentLines(lines)
            /\ \A k \in 1..n :
                  /\ blocks[k][1] < blocks[k][2]
                  /\ k < n => blocks[k][2] = blocks[k + 1][1]
                  /\ k = n => blocks[k][2] = Len(lines)
                  /\ \A i \in ParentLines(lines) :
                        ~(blocks[k][1] < i /\ i < blocks[k][2])
            /\ \A j, k \in 1..n : j < k => blocks[j][1] < blocks[k][1]
            /\ ParentLines(lines) = {} => blocks = <<>>

\* a document of two parent blocks, one opened by a padded parent line,
\* with lines before the first, has been split and transformed
C26_Witness ==
    /\ ok_written
    /\ Len(split_parent_blocks(lines)) = 2
    /\ split_parent_blocks(lines)[1][1] > 0
    /\ \E k \in 1..2 : At(lines, split_parent_blocks(lines)[k][1]) = L_PARENT_PADDED

\* the empty document and a document without a parent line have been split
C26_WitnessNoParent ==
    /\ calls # <<>>
    /\ lines # <<>>
    /\ split_parent_blocks(lines) = <<>>

----------------------------------------------------------------------------
(* Further claims on the extraction *)

\* the marker of the loop iteration that has just been made
StepMarker == trace'[Len(trace')].marker

\* the number of iterations so far whose marker was PARENT
ParentMarkers == Cardinality({k \in 1..Len(trace) : trace[k].marker = MARKER_PARENT})

TypeName(text) ==
    IF Contains(text, MARKER_PARENT) THEN "PARENT"
    ELSE IF Contains(text, MARKER_CHILD) THEN "CHILD"
    ELSE IF Contains(text, MARKER_SKIP) THEN "SKIP"
    ELSE NoMarker

\* the marker type as the token itself, in the same order
TypeToken(text) ==
    IF Contains(text, MARKER_PARENT) THEN "[PARENT]"
    ELSE IF Contains(text, MARKER_CHILD) THEN "[CHILD]"
    ELSE IF Contains(text, MARKER_SKIP) THEN "[SKIP]"
    ELSE NoMarker

\* the texts check_marker_type has been called with: the texts of the
\* paragraphs read and of the cells of the tables read
TextsChecked ==
    {elements[k].text : k \in {j \in 1..Len(elements) :
                                 elements[j].kind = "CT_P" /\ ~trace[j].raised}}
    \cup UNION {UNION {{row[c] : c \in 1..Len(row)} :
                        row \in {elements[k].rows[r] : r \in 1..Len(elements[k].rows)}} :
                 k \in {j \in 1..Len(elements) :
                          elements[j].kind = "CT_Tbl" /\ ~trace[j].raised}}

\* C28: check_marker_type returns "PARENT" for a text that contains the token
\* [PARENT], whatever other tokens it holds, else "CHILD" for [CHILD], else
\* "SKIP" for [SKIP], else None: the values are the bare names
C28_BareMarkerNames ==
    \A text \in TextsChecked : check_marker_type(text) = TypeName(text)

\* the same order of the tests, with the tokens as the values returned
C28_MarkerTokens ==
    \A text \in TextsChecked : check_marker_type(text) = TypeToken(text)

----------------------------------------------------------------------------
(***************************************************************************)
(* move_structured_to_department.py: every *.txt file directly inside      *)
(* INPUT_DIR is copied to OUTPUT_DIR and then moved to DONE_DIR.  A        *)
(* directory is a set of records [name, lines].                            *)
(***************************************************************************)

\* the file of the directory with this name
FileIn(dir, name) == CHOOSE f \in dir : f.name = name

NamesIn(dir) == {f.name : f \in dir}

\* variant: a file that exists at the destination is left as it is
copy2_keeps_existing(dir, file) ==
    IF file.name \in NamesIn(dir) THEN dir ELSE dir \cup {file}

\* shutil.copy2(file, dest): dest is created or overwritten
copy2(dir, file) == WriteFile(dir, file.name, file.lines)

\* the names and the contents of the files of the three directories
MoveNames == {"a.txt", "b.txt", "c_ERROR.txt"}

MoveContents == {<<"1">>, <<"2">>}

\* the directories with files of these names, every name at most once
DirsOf(names, contents) ==
    {dir \in SUBSET {[name |-> n, lines |-> c] : n \in names, c \in contents} :
        \A f, g \in dir : f.name = g.name => f = g}

\* list(INPUT_DIR.glob("*.txt")): the names of the directory in any order
GlobOrders(dir) ==
    {l \in [1..Cardinality(dir) -> NamesIn(dir)] :
        \A i, j \in 1..Cardinality(dir) : l[i] = l[j] => i = j}

InitMove ==
    /\ mv_pc = "start"
    /\ mv_files = <<>>
    /\ mv_idx = 0
    /\ mv_input \in DirsOf(MoveNames, MoveContents)
    /\ mv_output \in DirsOf({"a.txt"}, {<<"0">>})
    /\ mv_done \in DirsOf({"a.txt", "b.txt"}, {<<"0">>})
    /\ mv_events = <<>>
    /\ NoEngine
    /\ NoBatch
    /\ NoExtraction
    /\ NoPipeline
    /\ NoDepartment

\* the two mkdir calls and the glob
MoveList ==
    /\ mv_pc = "start"
    /\ mv_files' \in GlobOrders(mv_input)
    /\ mv_pc' = IF mv_input = {} THEN "done" ELSE "copy"
    /\ UNCHANGED <<mv_idx, mv_input, mv_output, mv_done, mv_events>>
    /\ UNCHANGED <<engine_vars, main_vars, extract_vars, pipeline_vars, dept_vars>>

\* shutil.copy2(file, dest) of the loop body
MoveCopy ==
    /\ mv_pc = "copy"
    /\ LET file == FileIn(mv_input, mv_files[mv_idx + 1])
       IN  /\ mv_output' = copy2(mv_output, file)
           /\ mv_events' = Append(mv_events, [op |-> "copy", name |-> file.name,
                                              lines |-> file.lines])
    /\ mv_pc' = "move"
    /\ UNCHANGED <<mv_files, mv_idx, mv_input, mv_done>>
    /\ UNCHANGED <<engine_vars, main_vars, extract_vars, pipeline_vars, dept_vars>>

\* shutil.copy2 raises (the destination cannot be written): nothing catches
\* the exception and the script ends
MoveCopyFails ==
    /\ mv_pc = "copy"
    /\ mv_pc' = "crashed"
    /\ UNCHANGED <<mv_files, mv_idx, mv_input, mv_output, mv_done, mv_events>>
    /\ UNCHANGED <<engine_vars, main_vars, extract_vars, pipeline_vars, dept_vars>>

\* shutil.move(str(file), str(moved)) of the loop body, then the next file
MoveMove ==
    /\ mv_pc = "move"
    /\ LET file == FileIn(mv_input, mv_files[mv_idx + 1])
       IN  /\ mv_done' = WriteFile(mv_done, file.name, file.lines)
           /\ mv_input' = mv_input \ {file}
           /\ mv_events' = Append(mv_events, [op |-> "move", name |-> file.name,
                                              lines |-> file.lines])
    /\ mv_idx' = mv_idx + 1
    /\ mv_pc' = IF mv_idx + 1 = Len(mv_files) THEN "done" ELSE "copy"
    /\ UNCHANGED <<mv_files, mv_output>>
    /\ UNCHANGED <<engine_vars, main_vars, extract_vars, pipeline_vars, dept_vars>>

NextMove == MoveList \/ MoveCopy \/ MoveCopyFails \/ MoveMove

SpecMove == InitMove /\ [][NextMove]_vars

\* the position of the event of this kind for this file, 0 if there is none
EventOf(op, name) ==
    IF \E k \in 1..Len(mv_events) : mv_events[k].op = op /\ mv_events[k].name = name
    THEN CHOOSE k \in 1..Len(mv_events) :
            mv_events[k].op = op /\ mv_events[k].name = name
    ELSE 0

----------------------------------------------------------------------------
(* Lines outside the child blocks *)

\* the line of this index equals the marker after trimming
IsMarkerLine(ls, i, marker) == Strip(At(ls, i)) = <<marker>>

\* the line of this index follows a PARENT line and, at or after the last
\* such line, a CHILD line: it lies in a child block
InChildBlock(ls, i) ==
    \E c \in 0..i :
        /\ IsMarkerLine(ls, c, MARKER_CHILD)
        /\ \E p \in 0..c : IsMarkerLine(ls, p, MARKER_PARENT)
        /\ \A p \in c..i : ~IsMarkerLine(ls, p, MARKER_PARENT)

\* the lines that belong to no child block: those before the first PARENT
\* line and those between a PARENT line and the first CHILD line of its block
StrayLines(ls) ==
    {i \in 0..(Len(ls) - 1) :
        ~IsMarkerLine(ls, i, MARKER_PARENT) /\ ~InChildBlock(ls, i)}

\* the document without the lines of these indexes
RECURSIVE Without(_, _, _)
Without(ls, indexes, from) ==
    IF from >= Len(ls) THEN <<>>
    ELSE (IF from \in indexes THEN <<>> ELSE <<At(ls, from)>>)
         \o Without(ls, indexes, from + 1)

\* the violations of the structural checks: those of validate_file_structure
\* that follow the ones of the marker-not-alone rule
StructuralErrors(ls) ==
    SubSeq(validate_file_structure(ls),
           Len(validate_marker_lines_are_alone(ls)) + 1,
           Len(validate_file_structure(ls)))

\* the lines the parent loop collects for the first n parent blocks
RECURSIVE CollectedLines(_, _, _, _)
CollectedLines(ls, n, idd, outd) ==
    IF n = 0 THEN <<EmptyLine, EmptyLine>>
    ELSE CollectedLines(ls, n - 1, idd, outd)
         \o ParentIteration(ls, n, split_parent_blocks(ls)[n][1],
                            split_parent_blocks(ls)[n][2], idd, outd, n).out

\* a divider line or a CHILD line among the lines
StrayMarkerIn(ls, indexes) ==
    \E i \in indexes : Strip(At(ls, i)) \in {<<MARKER_QA_SPLIT>>, <<MARKER_CHILD>>}

\* C30: the lines in no child block are checked by the marker-not-alone rule
\* only and do not reach the structured output: the structural violations
\* and the output are those of the document without these lines, so a
\* divider line or a CHILD line placed there is dropped without a violation
C30_StrayLinesIgnored ==
    /\ calls # <<>> =>
          /\ StructuralErrors(lines)
                = StructuralErrors(Without(lines, StrayLines(lines), 0))
          /\ (validate_marker_lines_are_alone(lines) = <<>>
                /\ StructuralErrors(Without(lines, StrayLines(lines), 0)) = <<>>)
                => fatal_errors = <<>>
    /\ ok_written =>
          ok_file = FileLines(normalize_blank_lines(
                        CollectedLines(Without(file_content, StrayLines(file_content), 0),
                                       Len(split_parent_blocks(file_content)),
                                       id_date, out_date)))

\* a written output for a document that has a CHILD line before its first
\* PARENT line and a divider line between a PARENT line and its first CHILD
C30_Witness ==
    /\ ok_written
    /\ \E i \in StrayLines(file_content) :
          /\ Strip(At(file_content, i)) = <<MARKER_CHILD>>
          /\ i < split_parent_blocks(file_content)[1][1]
    /\ \E i \in StrayLines(file_content) :
          /\ Strip(At(file_content, i)) = <<MARKER_QA_SPLIT>>
          /\ i > split_parent_blocks(file_content)[1][1]

====
